---- MODULE Spec2Model ----
(***************************************************************************)
(* NachOS (chih-hsi-chen/NachOS): the MP4 hierarchical file system         *)
(* (filesys.cc, directory.cc) over a sector disk.                          *)
(*                                                                         *)
(* Units.  The disk is an array of sectors.  One sector holds one "cell":  *)
(* a file header, one DirectoryEntry record, or one unit of user data, so  *)
(* SectorSize = sizeof(DirectoryEntry) = 1 cell and every file size is in  *)
(* cells.  Sectors keep their old contents when they are freed and when    *)
(* they are allocated again, as on the real disk.                          *)
(***************************************************************************)
EXTENDS Integers, Sequences, FiniteSets, TLC

VARIABLES
    disk,       \* the sectors of the disk: [Sectors -> Cell]
    freeMap,    \* contents of the bitmap file: [Sectors -> BOOLEAN], TRUE = in use
    log,        \* disk write-backs of the last operation, in order
    last,       \* the last operation: its name, arguments and result
    halted,     \* TRUE once an ASSERT of the kernel has aborted the machine
    steps,      \* operations called so far
    pre,        \* history: the disk and the bitmap file before the last operation
    table,      \* SpecDir: a Directory object in memory
    res,        \* SpecDir: the last Directory call and its result
    handles,    \* SpecIO: the OpenFile objects handed out, by id
    io,         \* SpecIO: the last call when it was a Read, Write or Close, and its result
    wrote,      \* SpecIO, history: by header sector, the buffer that filled the file
    sched       \* SpecSched: the Scheduler, its threads, and the last call on it

vars == <<disk, freeMap, log, last, halted, steps, pre, table, res, handles, io, wrote,
          sched>>

(* ----------------------------- bounds --------------------------------- *)

\* entries per directory table (NumDirEntries is 64 in filesys.cc:65; scaled)
NumDirEntries == 2
\* characters kept of a name (FileNameMaxLen of directory.h; scaled)
FileNameMaxLen == 2
\* sectors beyond those of the root, two directories and nothing else
SpareSectors == 2
\* largest file size offered to Create, in cells
MaxFileSize == 3
\* file-system operations in one run
MaxOps == 4
\* Directory calls in one run of SpecDir
MaxDirOps == 5
\* calls in one run of SpecIO
MaxIOOps == 6
\* recursion guard of RecurRemoveDirectory (the code has none)
MaxRecur == 4
MaxSchedOps == 3

(* ------------------------- program constants -------------------------- *)

FreeMapSector == 0
DirectorySector == 1

DirectoryFileSize == NumDirEntries
\* header + data of the bitmap file, header + table of the root, and room
\* for two directories and SpareSectors more
NumSectors == 3 + NumDirEntries + 2 * (1 + NumDirEntries) + SpareSectors
Sectors == 0 .. (NumSectors - 1)

Min(x, y) == IF x < y THEN x ELSE y

(* ------------------------------ cells --------------------------------- *)

\* A sector is a tagged tuple: <<"zero">>, <<"ent", inUse, isDir, sector, name>>,
\* <<"hdr", numBytes, dataSectors>> or <<"dat", value>>.

\* a sector of zero bytes (a freshly created disk, a zeroed entry)
ZeroCell == <<"zero">>

\* DirectoryEntry: {inUse, isDir, sector, name}
Entry(u, d, s, n) == [inUse |-> u, isDir |-> d, sector |-> s, name |-> n]
ZeroEntry == Entry(FALSE, FALSE, 0, <<>>)

\* the bytes of a DirectoryEntry as a sector
EntCell(e) ==
    IF e = ZeroEntry THEN ZeroCell ELSE <<"ent", e.inUse, e.isDir, e.sector, e.name>>

\* the bytes of a FileHeader as a sector
HdrCell(h) == <<"hdr", h.numBytes, h.dataSectors>>

\* one unit of user data
DatCell(x) == <<"dat", x>>

\* a sector read as a DirectoryEntry.  Sectors that hold a table record or
\* zeros give that record; any other sector gives a record that is not in
\* use (within the bounds no operation reads a table from such a sector).
AsEntry(c) == IF c[1] = "ent" THEN Entry(c[2], c[3], c[4], c[5]) ELSE ZeroEntry

\* a sector read as a FileHeader; a sector that holds no header gives an
\* empty file (within the bounds no operation reads a header from one)
AsHeader(c) ==
    IF c[1] = "hdr" THEN [numBytes |-> c[2], dataSectors |-> c[3]]
    ELSE [numBytes |-> 0, dataSectors |-> <<>>]

(* ----------------- Bitmap (bitmap.cc, not in src) ---------------------- *)

NumClear(b) == Cardinality({s \in Sectors : ~b[s]})

\* Bitmap::FindAndSet picks the lowest clear bit; -1 when none is clear
FindFree(b) ==
    IF \E s \in Sectors : ~b[s]
    THEN CHOOSE s \in Sectors : ~b[s] /\ \A r \in Sectors : ~b[r] => s <= r
    ELSE -1

Mark(b, s) == [b EXCEPT ![s] = TRUE]
Clear(b, s) == [b EXCEPT ![s] = FALSE]

\* the bitmap after FindAndSet has been called n times
RECURSIVE MarkLowest(_, _)
MarkLowest(b, n) ==
    IF n = 0 \/ FindFree(b) = -1 THEN b ELSE MarkLowest(Mark(b, FindFree(b)), n - 1)

\* the sectors n calls of FindAndSet return, in order
RECURSIVE TakeLowest(_, _)
TakeLowest(b, n) ==
    IF n = 0 \/ FindFree(b) = -1 THEN <<>>
    ELSE <<FindFree(b)>> \o TakeLowest(Mark(b, FindFree(b)), n - 1)

(* ---------------- FileHeader (filehdr.cc, not in src) ----------------- *)

\* FileHeader::Allocate: fails, changing nothing, when fewer than the needed
\* sectors are clear; else takes the lowest clear sectors in order
Allocate(b, fileSize) ==
    IF NumClear(b) < fileSize
    THEN [ok |-> FALSE, map |-> b, hdr |-> [numBytes |-> 0, dataSectors |-> <<>>]]
    ELSE [ok |-> TRUE, map |-> MarkLowest(b, fileSize),
          hdr |-> [numBytes |-> fileSize, dataSectors |-> TakeLowest(b, fileSize)]]

\* FileHeader::Deallocate: clears every data sector; it ASSERTs that each was
\* marked (ok = FALSE when the ASSERT fails)
Deallocate(b, hdr) ==
    [ok |-> \A i \in 1 .. Len(hdr.dataSectors) : b[hdr.dataSectors[i]],
     map |-> [s \in Sectors |->
                 IF \E i \in 1 .. Len(hdr.dataSectors) : hdr.dataSectors[i] = s
                 THEN FALSE ELSE b[s]]]

(* ----------------- OpenFile (openfile.cc, not in src) ----------------- *)

\* OpenFile::OpenFile(sector): the header is read once, when the file is opened
OpenFile(d, sector) == [sector |-> sector, hdr |-> AsHeader(d[sector])]

FileLength(f) == f.hdr.numBytes

\* OpenFile::ReadAt: the cells [position, position + numBytes) that lie inside the file
ReadAt(d, f, numBytes, position) ==
    IF numBytes <= 0 \/ position >= FileLength(f) THEN <<>>
    ELSE [i \in 1 .. Min(numBytes, FileLength(f) - position) |->
              d[f.hdr.dataSectors[position + i]]]

\* OpenFile::WriteAt: writes the cells that fit inside the file
WriteAt(d, f, cells, position) ==
    IF Len(cells) <= 0 \/ position >= FileLength(f) THEN d
    ELSE LET n == Min(Len(cells), FileLength(f) - position)
         IN [s \in Sectors |->
                IF \E i \in 1 .. n : f.hdr.dataSectors[position + i] = s
                THEN cells[CHOOSE i \in 1 .. n :
                             /\ f.hdr.dataSectors[position + i] = s
                             /\ \A j \in 1 .. n :
                                  f.hdr.dataSectors[position + j] = s => j <= i]
                ELSE d[s]]

(* ------------------------- Directory (directory.cc) ------------------- *)

Slots == 0 .. (NumDirEntries - 1)

\* Directory::Directory: every slot zeroed and not in use
NewDirectory == [i \in Slots |-> ZeroEntry]

\* Directory::FetchFrom: ReadAt over the table; slots beyond the end of the
\* file keep what the object held
FetchFrom(t, d, f) ==
    LET got == ReadAt(d, f, NumDirEntries, 0)
    IN [i \in Slots |-> IF i + 1 <= Len(got) THEN AsEntry(got[i + 1]) ELSE t[i]]

\* Directory::WriteBack: WriteAt of the whole table
WriteBack(t, d, f) == WriteAt(d, f, [i \in 1 .. NumDirEntries |-> EntCell(t[i - 1])], 0)

\* strncpy(dst, name, FileNameMaxLen)
Trunc(name) == SubSeq(name, 1, Min(Len(name), FileNameMaxLen))

\* mutant of the name comparison: the whole names are compared (strcmp)
SameNameExact(a, b) == a = b

\* !strncmp(a, b, FileNameMaxLen)
SameName(a, b) == Trunc(a) = Trunc(b)

FindIndex(t, name) ==
    IF \E i \in Slots : t[i].inUse /\ SameName(t[i].name, name)
    THEN CHOOSE i \in Slots :
            /\ t[i].inUse /\ SameName(t[i].name, name)
            /\ \A j \in Slots : (t[j].inUse /\ SameName(t[j].name, name)) => i <= j
    ELSE -1

Find(t, name) ==
    LET i == FindIndex(t, name) IN IF i # -1 THEN t[i].sector ELSE -1

\* mutant of Add: an Add of a name already present replaces its entry
AddOverwrites(t, name, newSector, isDir) ==
    IF FindIndex(t, name) # -1
    THEN [ok |-> TRUE,
          table |-> [t EXCEPT ![FindIndex(t, name)] = Entry(TRUE, isDir, newSector, Trunc(name))]]
    ELSE IF \E i \in Slots : ~t[i].inUse
    THEN LET i == CHOOSE i \in Slots : ~t[i].inUse /\ \A j \in Slots : ~t[j].inUse => i <= j
         IN [ok |-> TRUE,
             table |-> [t EXCEPT ![i] = Entry(TRUE, isDir, newSector, Trunc(name))]]
    ELSE [ok |-> FALSE, table |-> t]

\* mutant of Add: the unused slot with the highest index is taken
AddHighest(t, name, newSector, isDir) ==
    IF FindIndex(t, name) # -1 THEN [ok |-> FALSE, table |-> t]
    ELSE IF \E i \in Slots : ~t[i].inUse
    THEN LET i == CHOOSE i \in Slots : ~t[i].inUse /\ \A j \in Slots : ~t[j].inUse => i >= j
         IN [ok |-> TRUE,
             table |-> [t EXCEPT ![i] = Entry(TRUE, isDir, newSector, Trunc(name))]]
    ELSE [ok |-> FALSE, table |-> t]

\* mutant of Add: the name is not looked up first
AddNoLookup(t, name, newSector, isDir) ==
    IF \E i \in Slots : ~t[i].inUse
    THEN LET i == CHOOSE i \in Slots : ~t[i].inUse /\ \A j \in Slots : ~t[j].inUse => i <= j
         IN [ok |-> TRUE,
             table |-> [t EXCEPT ![i] = Entry(TRUE, isDir, newSector, Trunc(name))]]
    ELSE [ok |-> FALSE, table |-> t]

Add(t, name, newSector, isDir) ==
    IF FindIndex(t, name) # -1 THEN [ok |-> FALSE, table |-> t]
    ELSE IF \E i \in Slots : ~t[i].inUse
    THEN LET i == CHOOSE i \in Slots : ~t[i].inUse /\ \A j \in Slots : ~t[j].inUse => i <= j
         IN [ok |-> TRUE,
             table |-> [t EXCEPT ![i] = Entry(TRUE, isDir, newSector, Trunc(name))]]
    ELSE [ok |-> FALSE, table |-> t]

\* mutant of Remove: the slot of the removed name stays in use
RemoveKeepsSlot(t, name) ==
    LET i == FindIndex(t, name)
    IN IF i = -1 THEN [ok |-> FALSE, table |-> t]
       ELSE [ok |-> TRUE, table |-> [t EXCEPT ![i].isDir = FALSE]]

DirectoryRemove(t, name) ==
    LET i == FindIndex(t, name)
    IN IF i = -1 THEN [ok |-> FALSE, table |-> t]
       ELSE [ok |-> TRUE, table |-> [t EXCEPT ![i].inUse = FALSE, ![i].isDir = FALSE]]

(* ------------------------ FileSystem (filesys.cc) --------------------- *)

\* the bitmap file holds NumSectors bits: one sector
FreeMapFileSize == 1

\* a machine state threaded through one operation: the disk, the bitmap file,
\* the write-backs so far, whether an ASSERT has aborted the machine, the
\* operation's return value, what it printed, the OpenFile objects it has
\* made with new and not deleted, and the calls RecurRemoveDirectory has made
\* from its loop
Machine(d, b, l, h, r, o) ==
    [disk |-> d, map |-> b, log |-> l, halted |-> h, ret |-> r, out |-> o, files |-> 0,
     calls |-> <<>>]

\* Remove(str) or RecurRemoveDirectory(str) is called from the loop
Calling(m, op, str) == [m EXCEPT !.calls = Append(@, <<op, str>>)]

\* n more OpenFile objects are live (new OpenFile), or -n fewer (delete)
Held(m, n) == [m EXCEPT !.files = @ + n]

\* return values: TRUE is 1, FALSE is 0; Open gives the header sector or -1
Returning(m, r) == [m EXCEPT !.ret = r]
\* a printed line: indentation, name, text
Line(indent, name, text) == <<indent, name, text>>
Message(text) == Line(0, <<>>, text)
Printing(m, line) == [m EXCEPT !.out = Append(m.out, line)]
Abort(m) == [m EXCEPT !.halted = TRUE]
Wrote(m, what, where) == [m EXCEPT !.log = Append(m.log, <<what, where>>)]

\* NULL
NoFile == [sector |-> -1, hdr |-> [numBytes |-> 0, dataSectors |-> <<>>]]

\* mutant of the constructor: the sector of the root's header is not marked
FormatNoMark ==
    LET blank == [s \in Sectors |-> FALSE]
        marked == Mark(blank, FreeMapSector)
        mapHdr == Allocate(Mark(marked, DirectorySector), FreeMapFileSize)
        dirHdr == Allocate(mapHdr.map, DirectoryFileSize)
        d0 == [s \in Sectors |-> ZeroCell]
        d1 == [d0 EXCEPT ![FreeMapSector] = HdrCell(mapHdr.hdr),
                         ![DirectorySector] = HdrCell(dirHdr.hdr)]
        d2 == WriteBack(NewDirectory, d1, OpenFile(d1, DirectorySector))
    IN Machine(d2, Clear(dirHdr.map, DirectorySector), <<>>, FALSE, 0, <<>>)

\* FileSystem::FileSystem(format = TRUE) on a disk of zeros
Format ==
    LET blank == [s \in Sectors |-> FALSE]
        marked == Mark(Mark(blank, FreeMapSector), DirectorySector)
        mapHdr == Allocate(marked, FreeMapFileSize)
        dirHdr == Allocate(mapHdr.map, DirectoryFileSize)
        d0 == [s \in Sectors |-> ZeroCell]
        d1 == [d0 EXCEPT ![FreeMapSector] = HdrCell(mapHdr.hdr),
                         ![DirectorySector] = HdrCell(dirHdr.hdr)]
        d2 == WriteBack(NewDirectory, d1, OpenFile(d1, DirectorySector))
    IN Machine(d2, dirHdr.map, <<>>, FALSE, 0, <<>>)

\* mutant of the tokenizer: an empty run between two separators is a token
\* (strsep instead of strtok)
RECURSIVE TokensKeepEmpty(_, _, _)
TokensKeepEmpty(rest, cur, acc) ==
    IF rest = <<>> THEN (IF cur = <<>> THEN acc ELSE Append(acc, cur))
    ELSE IF Head(rest) = "/"
    THEN TokensKeepEmpty(Tail(rest), <<>>,
                         IF cur = <<>> /\ acc = <<>> THEN acc ELSE Append(acc, cur))
    ELSE TokensKeepEmpty(Tail(rest), Append(cur, Head(rest)), acc)

\* strtok(path, "/") until NULL: the non-empty runs between separators
RECURSIVE Tokens(_, _, _)
Tokens(rest, cur, acc) ==
    IF rest = <<>> THEN (IF cur = <<>> THEN acc ELSE Append(acc, cur))
    ELSE IF Head(rest) = "/"
    THEN Tokens(Tail(rest), <<>>, IF cur = <<>> THEN acc ELSE Append(acc, cur))
    ELSE Tokens(Tail(rest), Append(cur, Head(rest)), acc)

\* folder[0 .. count-1]: each token copied with strncpy(.., FileNameMaxLen)
Folder(path) ==
    LET toks == Tokens(path, <<>>, <<>>) IN [i \in 1 .. Len(toks) |-> Trunc(toks[i])]

\* the lookup loop of Parse, CreateDirectory and ListDirectory: from slot i,
\* look folder[i] up in the current table, open the sector found and read its
\* table over the current one.  Gives the last file opened and the table, or
\* NoFile at the first name not found.  One OpenFile object is live when the
\* loop is left: the one made before it, or the one made in the last step in
\* place of the one that step deleted.
RECURSIVE Walk(_, _, _, _, _, _)
Walk(d, directory, tempDirectory, folder, i, n) ==
    IF i >= n THEN [file |-> tempDirectory, directory |-> directory, open |-> 1]
    ELSE LET sector == Find(directory, folder[i + 1])
         IN IF sector = -1 THEN [file |-> NoFile, directory |-> directory, open |-> 1]
            ELSE LET f == OpenFile(d, sector)
                 IN Walk(d, FetchFrom(directory, d, f), f, folder, i + 1, n)

\* mutant of Parse: the handle is not deleted when a name is not found
ParseLeaks(d, path, create) ==
    LET folder == Folder(path)
        count == Len(folder)
        root == OpenFile(d, DirectorySector)
    IN CHOOSE p \in
           {[file |-> w.file, folder |-> folder, count |-> count, open |-> w.open] :
               w \in {Walk(d, FetchFrom(NewDirectory, d, root), root, folder, 0,
                           count - (IF create THEN 1 ELSE 0))}} : TRUE

\* FileSystem::Parse(path, create, folder, &count); w is what the loop
\* leaves, open the number of OpenFile objects live at the return (delete
\* tempDirectory before the break)
Parse(d, path, create) ==
    LET folder == Folder(path)
        count == Len(folder)
        root == OpenFile(d, DirectorySector)
    IN CHOOSE p \in
           {[file |-> w.file, folder |-> folder, count |-> count,
             open |-> IF w.file = NoFile THEN w.open - 1 ELSE w.open] :
               w \in {Walk(d, FetchFrom(NewDirectory, d, root), root, folder, 0,
                           count - (IF create THEN 1 ELSE 0))}} : TRUE

\* mutant of Create: the bitmap copy is written back when the data sectors
\* cannot be allocated
CreatePersistsBit(m, name, initialSize) ==
    LET p == Parse(m.disk, name, TRUE)
        fname == p.folder[p.count]
        directory == FetchFrom(NewDirectory, m.disk, p.file)
        sector == FindFree(m.map)
        marked == Mark(m.map, sector)
        added == Add(directory, fname, sector, FALSE)
        al == Allocate(marked, initialSize)
        d1 == [m.disk EXCEPT ![sector] = HdrCell(al.hdr)]
        d2 == WriteBack(added.table, d1, p.file)
    IN Held(IF p.file = NoFile THEN Returning(Printing(m, Message("No such directory.")), 0)
            ELSE IF Find(directory, fname) # -1
            THEN Returning(Printing(m, Message("file is already in directory!!!")), 0)
            ELSE IF sector = -1
            THEN Returning(Printing(m, Message("no free block for file header!!!.")), 0)
            ELSE IF ~added.ok THEN Returning(Printing(m, Message("no space in directory.")), 0)
            ELSE IF ~al.ok
            THEN Returning(Printing([m EXCEPT !.map = marked],
                                    Message("no space on disk for data!!!.")), 0)
            ELSE Returning(
                   Wrote(Wrote(Wrote([m EXCEPT !.disk = d2, !.map = al.map],
                                     "hdr", sector), "dir", p.file.sector), "map", FreeMapSector),
                   1),
            p.open - (IF p.file = NoFile THEN 0 ELSE 1))

\* mutant of Create: the bitmap is written back before the header and the table
CreateMapFirst(m, name, initialSize) ==
    LET p == Parse(m.disk, name, TRUE)
        fname == p.folder[p.count]
        directory == FetchFrom(NewDirectory, m.disk, p.file)
        sector == FindFree(m.map)
        marked == Mark(m.map, sector)
        added == Add(directory, fname, sector, FALSE)
        al == Allocate(marked, initialSize)
        d1 == [m.disk EXCEPT ![sector] = HdrCell(al.hdr)]
        d2 == WriteBack(added.table, d1, p.file)
    IN Held(IF p.file = NoFile THEN Returning(Printing(m, Message("No such directory.")), 0)
            ELSE IF Find(directory, fname) # -1
            THEN Returning(Printing(m, Message("file is already in directory!!!")), 0)
            ELSE IF sector = -1
            THEN Returning(Printing(m, Message("no free block for file header!!!.")), 0)
            ELSE IF ~added.ok THEN Returning(Printing(m, Message("no space in directory.")), 0)
            ELSE IF ~al.ok THEN Returning(Printing(m, Message("no space on disk for data!!!.")), 0)
            ELSE Returning(
                   Wrote(Wrote(Wrote([m EXCEPT !.disk = d2, !.map = al.map],
                                     "map", FreeMapSector), "hdr", sector), "dir", p.file.sector),
                   1),
            p.open - (IF p.file = NoFile THEN 0 ELSE 1))

\* mutant of Create: the bitmap is not written back
CreateSkipsMap(m, name, initialSize) ==
    LET p == Parse(m.disk, name, TRUE)
        fname == p.folder[p.count]
        directory == FetchFrom(NewDirectory, m.disk, p.file)
        sector == FindFree(m.map)
        marked == Mark(m.map, sector)
        added == Add(directory, fname, sector, FALSE)
        al == Allocate(marked, initialSize)
        d1 == [m.disk EXCEPT ![sector] = HdrCell(al.hdr)]
        d2 == WriteBack(added.table, d1, p.file)
    IN Held(IF p.file = NoFile THEN Returning(Printing(m, Message("No such directory.")), 0)
            ELSE IF Find(directory, fname) # -1
            THEN Returning(Printing(m, Message("file is already in directory!!!")), 0)
            ELSE IF sector = -1
            THEN Returning(Printing(m, Message("no free block for file header!!!.")), 0)
            ELSE IF ~added.ok THEN Returning(Printing(m, Message("no space in directory.")), 0)
            ELSE IF ~al.ok THEN Returning(Printing(m, Message("no space on disk for data!!!.")), 0)
            ELSE Returning(
                   Wrote(Wrote([m EXCEPT !.disk = d2], "hdr", sector), "dir", p.file.sector),
                   1),
            p.open - (IF p.file = NoFile THEN 0 ELSE 1))

\* FileSystem::Create(name, initialSize)
Create(m, name, initialSize) ==
    LET p == Parse(m.disk, name, TRUE)
        fname == p.folder[p.count]
        directory == FetchFrom(NewDirectory, m.disk, p.file)
        sector == FindFree(m.map)
        marked == Mark(m.map, sector)
        added == Add(directory, fname, sector, FALSE)
        al == Allocate(marked, initialSize)
        d1 == [m.disk EXCEPT ![sector] = HdrCell(al.hdr)]
        d2 == WriteBack(added.table, d1, p.file)
    IN Held(IF p.file = NoFile THEN Returning(Printing(m, Message("No such directory.")), 0)
            ELSE IF Find(directory, fname) # -1
            THEN Returning(Printing(m, Message("file is already in directory!!!")), 0)
            ELSE IF sector = -1
            THEN Returning(Printing(m, Message("no free block for file header!!!.")), 0)
            ELSE IF ~added.ok THEN Returning(Printing(m, Message("no space in directory.")), 0)
            ELSE IF ~al.ok THEN Returning(Printing(m, Message("no space on disk for data!!!.")), 0)
            ELSE Returning(
                   Wrote(Wrote(Wrote([m EXCEPT !.disk = d2, !.map = al.map],
                                     "hdr", sector), "dir", p.file.sector), "map", FreeMapSector),
                   1),
            p.open - (IF p.file = NoFile THEN 0 ELSE 1))

\* mutant of CreateDirectory: the bitmap copy is written back when the name
\* cannot be added to the table
CreateDirectoryPersistsBit(m, path) ==
    LET folder == Folder(path)
        count == Len(folder)
        root == OpenFile(m.disk, DirectorySector)
        w == Walk(m.disk, FetchFrom(NewDirectory, m.disk, root), root, folder, 0, count - 1)
        NewDirSector == FindFree(m.map)
        marked == Mark(m.map, NewDirSector)
        added == Add(w.directory, folder[count], NewDirSector, TRUE)
        al == Allocate(marked, DirectoryFileSize)
        d1 == [m.disk EXCEPT ![NewDirSector] = HdrCell(al.hdr)]
        d2 == WriteBack(NewDirectory, d1, OpenFile(d1, NewDirSector))
        d3 == WriteBack(added.table, d2, w.file)
    IN Held(IF w.file = NoFile THEN Returning(Printing(m, Message("No such directory.")), 0)
            ELSE IF NewDirSector = -1
            THEN Returning(Printing(m, Message("no free block for file header!!!.")), 0)
            ELSE IF ~added.ok
            THEN Returning(Printing([m EXCEPT !.map = marked], Message("no space in directory.")), 0)
            ELSE IF ~al.ok THEN Returning(Printing(m, Message("no space on disk for data!!!.")), 0)
            ELSE Returning(
                   Held(Wrote(Wrote(Wrote(Wrote(Held([m EXCEPT !.disk = d3, !.map = al.map], 1),
                                                "hdr", NewDirSector), "newdir", NewDirSector),
                                    "dir", w.file.sector), "map", FreeMapSector), -1),
                   1),
            w.open - 1)

\* FileSystem::CreateDirectory(path)
CreateDirectory(m, path) ==
    LET folder == Folder(path)
        count == Len(folder)
        root == OpenFile(m.disk, DirectorySector)
        w == Walk(m.disk, FetchFrom(NewDirectory, m.disk, root), root, folder, 0, count - 1)
        NewDirSector == FindFree(m.map)
        marked == Mark(m.map, NewDirSector)
        added == Add(w.directory, folder[count], NewDirSector, TRUE)
        al == Allocate(marked, DirectoryFileSize)
        d1 == [m.disk EXCEPT ![NewDirSector] = HdrCell(al.hdr)]
        d2 == WriteBack(NewDirectory, d1, OpenFile(d1, NewDirSector))
        d3 == WriteBack(added.table, d2, w.file)
    IN Held(IF w.file = NoFile THEN Returning(Printing(m, Message("No such directory.")), 0)
            ELSE IF NewDirSector = -1
            THEN Returning(Printing(m, Message("no free block for file header!!!.")), 0)
            ELSE IF ~added.ok THEN Returning(Printing(m, Message("no space in directory.")), 0)
            ELSE IF ~al.ok THEN Returning(Printing(m, Message("no space on disk for data!!!.")), 0)
            ELSE Returning(
                   Held(Wrote(Wrote(Wrote(Wrote(Held([m EXCEPT !.disk = d3, !.map = al.map], 1),
                                                "hdr", NewDirSector), "newdir", NewDirSector),
                                    "dir", w.file.sector), "map", FreeMapSector), -1),
                   1),
            w.open - 1)

\* mutant of Open: a name that is not found is created
OpenCreates(m, name) ==
    LET p == Parse(m.disk, name, TRUE)
        directory == FetchFrom(NewDirectory, m.disk, p.file)
        sector == Find(directory, p.folder[p.count])
    IN Held(IF p.file # NoFile /\ sector >= 0 THEN Returning(m, sector)
            ELSE Returning([Create(m, name, 1) EXCEPT !.log = <<>>, !.out = <<>>], -1),
            (IF p.file # NoFile /\ sector >= 0 THEN 1 ELSE 0)
            + p.open - (IF p.file = NoFile THEN 0 ELSE 1))

\* FileSystem::Open(name): the header sector the handle is opened on, -1 for NULL
Open(m, name) ==
    LET p == Parse(m.disk, name, TRUE)
        directory == FetchFrom(NewDirectory, m.disk, p.file)
        sector == Find(directory, p.folder[p.count])
    IN Held(IF p.file # NoFile /\ sector >= 0 THEN Returning(m, sector) ELSE Returning(m, -1),
            (IF p.file # NoFile /\ sector >= 0 THEN 1 ELSE 0)
            + p.open - (IF p.file = NoFile THEN 0 ELSE 1))

\* mutant of Remove: the header sector is not cleared in the bitmap
RemoveKeepsHeader(m, name) ==
    LET p == Parse(m.disk, name, TRUE)
        fname == p.folder[p.count]
        directory == FetchFrom(NewDirectory, m.disk, p.file)
        sector == Find(directory, fname)
        fileHdr == AsHeader(m.disk[sector])
        dl == Deallocate(m.map, fileHdr)
        removed == DirectoryRemove(directory, fname)
    IN Held(IF p.file = NoFile THEN Returning(Printing(m, Message("No such directory.")), 0)
            ELSE IF sector = -1 THEN Returning(Printing(m, Message("No such file")), 0)
            ELSE IF ~dl.ok THEN Abort(m)
            ELSE Returning(
                   Wrote(Wrote([m EXCEPT !.map = dl.map,
                                         !.disk = WriteBack(removed.table, m.disk, p.file)],
                               "map", FreeMapSector), "dir", p.file.sector),
                   1),
            p.open - (IF p.file = NoFile THEN 0 ELSE 1))

\* mutant of Remove: the parent table is not written back
RemoveSkipsTable(m, name) ==
    LET p == Parse(m.disk, name, TRUE)
        fname == p.folder[p.count]
        directory == FetchFrom(NewDirectory, m.disk, p.file)
        sector == Find(directory, fname)
        fileHdr == AsHeader(m.disk[sector])
        dl == Deallocate(m.map, fileHdr)
        cleared == Clear(dl.map, sector)
        removed == DirectoryRemove(directory, fname)
    IN Held(IF p.file = NoFile THEN Returning(Printing(m, Message("No such directory.")), 0)
            ELSE IF sector = -1 THEN Returning(Printing(m, Message("No such file")), 0)
            ELSE IF ~dl.ok THEN Abort(m)
            ELSE Returning(Wrote([m EXCEPT !.map = cleared], "map", FreeMapSector), 1),
            p.open - (IF p.file = NoFile THEN 0 ELSE 1))

\* FileSystem::Remove(name)
Remove(m, name) ==
    LET p == Parse(m.disk, name, TRUE)
        fname == p.folder[p.count]
        directory == FetchFrom(NewDirectory, m.disk, p.file)
        sector == Find(directory, fname)
        fileHdr == AsHeader(m.disk[sector])
        dl == Deallocate(m.map, fileHdr)
        cleared == Clear(dl.map, sector)
        removed == DirectoryRemove(directory, fname)
    IN Held(IF p.file = NoFile THEN Returning(Printing(m, Message("No such directory.")), 0)
            ELSE IF sector = -1 THEN Returning(Printing(m, Message("No such file")), 0)
            ELSE IF ~dl.ok THEN Abort(m)
            ELSE Returning(
                   Wrote(Wrote([m EXCEPT !.map = cleared,
                                         !.disk = WriteBack(removed.table, m.disk, p.file)],
                               "map", FreeMapSector), "dir", p.file.sector),
                   1),
            p.open - (IF p.file = NoFile THEN 0 ELSE 1))

\* FileSystem::RecurRemoveDirectory(name).  The function has no return
\* statement; the action picks the value the caller sees.  fuel bounds the
\* depth of the recursion.
RECURSIVE RecurRemoveDirectory(_, _, _)
RECURSIVE RemoveChildren(_, _, _, _, _)
RECURSIVE RemoveChildrenBackwards(_, _, _, _, _)

\* mutant of the loop of RecurRemoveDirectory: the slots are visited from
\* the last to the first
RemoveChildrenBackwards(m, name, directory, i, fuel) ==
    IF i >= NumDirEntries \/ m.halted THEN m
    ELSE LET k == NumDirEntries - 1 - i
         IN IF ~directory[k].inUse
            THEN RemoveChildrenBackwards(m, name, directory, i + 1, fuel)
            ELSE LET str == name \o <<"/">> \o directory[k].name
                 IN RemoveChildrenBackwards(
                        IF ~directory[k].isDir THEN Remove(Calling(m, "Remove", str), str)
                        ELSE RecurRemoveDirectory(Calling(m, "RecurRemoveDirectory", str),
                                                  str, fuel - 1),
                        name, directory, i + 1, fuel)

\* the loop over the slots of the directory being removed (filesys.cc:682-695)
RemoveChildren(m, name, directory, i, fuel) ==
    IF i >= NumDirEntries \/ m.halted THEN m
    ELSE IF ~directory[i].inUse THEN RemoveChildren(m, name, directory, i + 1, fuel)
    ELSE LET str == name \o <<"/">> \o directory[i].name
         IN RemoveChildren(
                IF ~directory[i].isDir THEN Remove(Calling(m, "Remove", str), str)
                ELSE RecurRemoveDirectory(Calling(m, "RecurRemoveDirectory", str),
                                          str, fuel - 1),
                name, directory, i + 1, fuel)

RecurRemoveDirectory(m, name, fuel) ==
    LET p == Parse(m.disk, name, TRUE)
        fname == p.folder[p.count]
        parent == FetchFrom(NewDirectory, m.disk, p.file)
        sector == Find(parent, fname)
        openRemoveDirectory == OpenFile(m.disk, sector)
        directory == FetchFrom(parent, m.disk, openRemoveDirectory)
        fileHdr == AsHeader(m.disk[sector])
        \* the bitmap is read before the children are removed
        loaded == m.map
        \* openDirectoryFile and openRemoveDirectory stay open over the loop
        m1 == RemoveChildren(Held(m, p.open + 1), name, directory, 0, fuel)
        dl == Deallocate(loaded, fileHdr)
        cleared == Clear(dl.map, sector)
        refetched == FetchFrom(directory, m1.disk, p.file)
        removed == DirectoryRemove(refetched, fname)
    IN IF m.halted THEN m
       ELSE IF fuel <= 0 THEN Abort(m)
       ELSE IF p.file = NoFile THEN Abort(m)
       ELSE IF sector = -1 THEN Held(Printing(m, Message("No such directory")), p.open - 1)
       ELSE IF m1.halted THEN m1
       ELSE IF ~dl.ok THEN Abort(m1)
       ELSE Held(Wrote(Wrote([m1 EXCEPT !.map = cleared,
                                        !.disk = WriteBack(removed.table, m1.disk, p.file)],
                             "map", FreeMapSector), "dir", p.file.sector),
                 -1 - 1)

\* Directory::List
RECURSIVE ListFrom(_, _)
ListFrom(t, i) ==
    IF i >= NumDirEntries THEN <<>>
    ELSE (IF t[i].inUse
          THEN <<Line(0, t[i].name, IF t[i].isDir THEN "[D]" ELSE "[F]")>>
          ELSE <<>>) \o ListFrom(t, i + 1)

DirectoryList(t) == ListFrom(t, 0)

\* Directory::RecurList(indent_level)
RECURSIVE RecurListFrom(_, _, _, _)
RECURSIVE RecurList(_, _, _)

\* mutant of RecurList: a subdirectory is listed at the level of its parent
RecurListFlat(t, d, indent, i) ==
    IF i >= NumDirEntries THEN <<>>
    ELSE (IF ~t[i].inUse THEN <<>>
          ELSE IF ~t[i].isDir THEN <<Line(2 * indent, t[i].name, "[F]")>>
          ELSE <<Line(2 * indent, t[i].name, "[D]")>>
               \o RecurList(FetchFrom(NewDirectory, d, OpenFile(d, t[i].sector)),
                            d, indent))
         \o RecurListFrom(t, d, indent, i + 1)

RecurListFrom(t, d, indent, i) ==
    IF i >= NumDirEntries THEN <<>>
    ELSE (IF ~t[i].inUse THEN <<>>
          ELSE IF ~t[i].isDir THEN <<Line(2 * indent, t[i].name, "[F]")>>
          ELSE <<Line(2 * indent, t[i].name, "[D]")>>
               \o RecurList(FetchFrom(NewDirectory, d, OpenFile(d, t[i].sector)),
                            d, indent + 1))
         \o RecurListFrom(t, d, indent, i + 1)

RecurList(t, d, indent) ==
    IF indent > MaxRecur THEN <<>>
    ELSE IF \A i \in Slots : ~t[i].inUse THEN <<Line(2 * indent, <<>>, "Empty Folder")>>
    ELSE RecurListFrom(t, d, indent, 0)

\* the OpenFile objects Directory::RecurList leaves live: for each
\* subdirectory one is made, the subdirectory is listed, and it is deleted
RECURSIVE RecurListHeld(_, _, _, _)
RecurListHeld(t, d, indent, i) ==
    IF i >= NumDirEntries \/ indent > MaxRecur THEN 0
    ELSE (IF t[i].inUse /\ t[i].isDir
          THEN 1 + RecurListHeld(FetchFrom(NewDirectory, d, OpenFile(d, t[i].sector)),
                                 d, indent + 1, 0) - 1
          ELSE 0)
         + RecurListHeld(t, d, indent, i + 1)

\* FileSystem::List
List(m) ==
    [m EXCEPT !.out = DirectoryList(
                         FetchFrom(NewDirectory, m.disk, OpenFile(m.disk, DirectorySector)))]

\* FileSystem::ListDirectory(path)
ListDirectory(m, path) ==
    LET folder == Folder(path)
        root == OpenFile(m.disk, DirectorySector)
        w == Walk(m.disk, FetchFrom(NewDirectory, m.disk, root), root, folder, 0, Len(folder))
    IN Held(IF w.file # NoFile THEN [m EXCEPT !.out = DirectoryList(w.directory)]
            ELSE Printing(m, Message("No such directory")),
            w.open - 1)

\* FileSystem::RecurListDirectory(path)
RecurListDirectory(m, path) ==
    LET p == Parse(m.disk, path, FALSE)
        directory == FetchFrom(NewDirectory, m.disk, p.file)
    IN IF p.file = NoFile THEN Held(Printing(m, Message("No such directory.")), p.open)
       ELSE Held([m EXCEPT !.out = RecurList(directory, m.disk, 0)],
                 p.open + RecurListHeld(directory, m.disk, 0, 0) - 1)

(* ---------------- handles: Close, Write, Read (filesys.cc) ------------- *)

\* An id is the OpenFile pointer Open returned, here the position of the
\* object in `handles`; the object holds its header and its seek position.
OpenObject(d, sector, path) ==
    [sector |-> sector, hdr |-> AsHeader(d[sector]), seek |-> 0, open |-> TRUE, path |-> path]

IOResult(d, hs, r, data) == [disk |-> d, handles |-> hs, ret |-> r, data |-> data]

\* bytes OpenFile::ReadAt / WriteAt transfer at position for a request of size
Transfer(f, size, position) ==
    IF size <= 0 \/ position >= FileLength(f) THEN 0
    ELSE Min(size, FileLength(f) - position)

\* mutant of Write: the last unit of the buffer is not written
WriteShort(d, hs, buffer, size, id) ==
    IF id <= 0 THEN IOResult(d, hs, 0, <<>>)
    ELSE LET f == hs[id]
             n == Transfer(f, size, f.seek)
         IN IOResult(WriteAt(d, f, SubSeq(buffer, 1, size - 1), f.seek),
                     [hs EXCEPT ![id].seek = f.seek + n], n, <<>>)

\* FileSystem::Write(buffer, size, id): OpenFile::Write at the seek position
Write(d, hs, buffer, size, id) ==
    IF id <= 0 THEN IOResult(d, hs, 0, <<>>)
    ELSE LET f == hs[id]
             n == Transfer(f, size, f.seek)
         IN IOResult(WriteAt(d, f, SubSeq(buffer, 1, size), f.seek),
                     [hs EXCEPT ![id].seek = f.seek + n], n, <<>>)

\* mutant of Read: the rest of the file is read, whatever size asks for
ReadToEnd(d, hs, size, id) ==
    IF id <= 0 THEN IOResult(d, hs, 0, <<>>)
    ELSE LET f == hs[id]
             got == ReadAt(d, f, FileLength(f), f.seek)
         IN IOResult(d, [hs EXCEPT ![id].seek = f.seek + Len(got)], Len(got), got)

\* FileSystem::Read(buffer, size, id): OpenFile::Read at the seek position
Read(d, hs, size, id) ==
    IF id <= 0 THEN IOResult(d, hs, 0, <<>>)
    ELSE LET f == hs[id]
             got == ReadAt(d, f, size, f.seek)
         IN IOResult(d, [hs EXCEPT ![id].seek = f.seek + Len(got)], Len(got), got)

\* FileSystem::Close(id)
Close(d, hs, id) ==
    IF id <= 0 THEN IOResult(d, hs, 0, <<>>)
    ELSE IOResult(d, [hs EXCEPT ![id].open = FALSE], 1, <<>>)

(* ------------- Scheduler (NachOS-4.0_MP3 threads/scheduler.cc) ----------- *)

Threads == {1, 2, 3}
NoThread == 0                       \* NULL

\* Where the write through Aging's uninitialised pointer t can land besides a
\* Thread object: in memory nothing reads, or at an unmapped address.
Stray == -1
Unmapped == -2
Wild == Threads \cup {Stray, Unmapped}

READY == "READY"
RUNNING == "RUNNING"
BLOCKED == "BLOCKED"

SystemMode == 1                     \* Aging: status == 1
SystemTick == 10
UserTick == 1
AgingLimit == 1500
PriorityStep == 10
LastRaised == 139
TopPriority == 149
L1Floor == 100
L2Floor == 50
L2Promoted == 90
L3Promoted == 40

\* SJFCompare: the shorter burst time first.
SJFCompare(s, a, b) ==
    IF s.burstTime[a] < s.burstTime[b] THEN -1
    ELSE IF s.burstTime[a] > s.burstTime[b] THEN 1 ELSE 0

\* PriorityCompare: the higher priority first.
PriorityCompare(s, a, b) ==
    IF s.priority[a] > s.priority[b] THEN -1
    ELSE IF s.priority[a] < s.priority[b] THEN 1 ELSE 0

\* SortedList::Insert (lib/list.cc, not in src): the item goes in front of the
\* first element it compares less than, and to the end when there is none;
\* compare is the list's comparison, by pair of threads.
Insert(list, t, compare) ==
    LET later == {i \in 1 .. Len(list) : compare[t, list[i]] < 0}
        k == IF later = {} THEN Len(list) + 1
             ELSE CHOOSE i \in later : \A j \in later : i <= j
    IN SubSeq(list, 1, k - 1) \o <<t>> \o SubSeq(list, k, Len(list))

\* The Scheduler after its constructor, with the threads of the kernel: thread
\* 1 is running, nothing is ready.
Scheduler ==
    [L1 |-> <<>>, L2 |-> <<>>, L3 |-> <<>>,
     priority |-> [t \in Threads |-> 0],
     burstTime |-> [t \in Threads |-> 0],
     waitTime |-> [t \in Threads |-> 0],
     status |-> [t \in Threads |-> IF t = 1 THEN RUNNING ELSE BLOCKED],
     currentThread |-> 1,
     yieldOnReturn |-> FALSE,
     nextThread |-> NoThread,
     promoted |-> <<>>,
     fault |-> FALSE]

ReadyToRunAppends(s, thread) ==
    LET r == [s EXCEPT !.status[thread] = READY, !.waitTime[thread] = 0]
    IN [r EXCEPT !.L3 = Append(@, thread)]

ReadyToRun(s, thread) ==
    LET r == [s EXCEPT !.status[thread] = READY, !.waitTime[thread] = 0]
    IN IF r.priority[thread] >= L1Floor
       THEN [r EXCEPT !.L1 = Insert(@, thread, [a, b \in Threads |-> SJFCompare(r, a, b)])]
       ELSE IF r.priority[thread] >= L2Floor
       THEN [r EXCEPT !.L2 = Insert(@, thread, [a, b \in Threads |-> PriorityCompare(r, a, b)])]
       ELSE [r EXCEPT !.L3 = Append(@, thread)]

getScheduleModeL2First(s) ==
    IF s.L2 # <<>> THEN "Priority"
    ELSE IF s.L1 # <<>> THEN "SJF"
    ELSE IF s.L3 # <<>> THEN "RR"
    ELSE "ERROR"

getScheduleMode(s) ==
    IF s.L1 # <<>> THEN "SJF"
    ELSE IF s.L2 # <<>> THEN "Priority"
    ELSE IF s.L3 # <<>> THEN "RR"
    ELSE "ERROR"

\* FindNextToRun: the scheduler afterwards and the thread returned.
FindNextToRun(s) ==
    IF s.L1 = <<>> /\ s.L2 = <<>> /\ s.L3 = <<>>
    THEN [s |-> s, ret |-> NoThread]
    ELSE LET mode == getScheduleMode(s)
         IN IF mode = "SJF"
            THEN [s |-> [s EXCEPT !.L1 = Tail(@)], ret |-> Head(s.L1)]
            ELSE IF mode = "Priority"
            THEN [s |-> [s EXCEPT !.L2 = Tail(@)], ret |-> Head(s.L2)]
            ELSE [s |-> [s EXCEPT !.L3 = Tail(@)], ret |-> Head(s.L3)]

\* Run, up to the context switch.
Run(s, nextThread) ==
    [s EXCEPT !.currentThread = nextThread, !.status[nextThread] = RUNNING]

Raised(priority) ==
    IF priority <= LastRaised THEN priority + PriorityStep ELSE TopPriority

\* Interrupt::YieldOnReturn (machine/interrupt.cc, not in src) sets the flag;
\* promoted records, per promotion, whether the call was made.
Promotion(s, t, level, yield) ==
    [s EXCEPT !.yieldOnReturn = @ \/ yield,
              !.promoted = Append(@, [thread |-> t, into |-> level, yield |-> yield])]

RECURSIVE AgingL1(_, _, _, _)
RECURSIVE AgingL2(_, _, _)
RECURSIVE AgingL3(_, _, _)

\* The first loop of Aging; t is the uninitialised local of line 291.
AgingL1(s, tmp_L1, tick_plus, t) ==
    IF s.L1 = <<>> THEN [s EXCEPT !.L1 = tmp_L1]
    ELSE LET front == Head(s.L1)
             priority == s.priority[front]
             waitTime == s.waitTime[front]
         IN IF waitTime + tick_plus < AgingLimit
            THEN IF t = Unmapped THEN [s EXCEPT !.fault = TRUE]
                 ELSE LET r == IF t \in Threads
                               THEN [s EXCEPT !.waitTime[t] = waitTime + tick_plus,
                                              !.L1 = Tail(@)]
                               ELSE [s EXCEPT !.L1 = Tail(@)]
                      IN AgingL1(r, Insert(tmp_L1, front,
                                           [a, b \in Threads |-> SJFCompare(r, a, b)]),
                                 tick_plus, t)
            ELSE LET r == [s EXCEPT !.waitTime[front] = 0,
                                    !.priority[front] = Raised(priority),
                                    !.L1 = Tail(@)]
                 IN AgingL1(r, Insert(tmp_L1, front, [a, b \in Threads |-> SJFCompare(r, a, b)]),
                            tick_plus, t)

\* The yield test after a promotion into L1.
YieldForL1(s, t) ==
    IF s.priority[s.currentThread] >= L1Floor
       /\ s.burstTime[s.currentThread] > s.burstTime[t]
    THEN TRUE
    ELSE s.priority[s.currentThread] >= L2Floor

\* The yield test after a promotion into L2.
YieldForL2(s, t) == s.priority[s.currentThread] < L2Floor

AgingL2(s, tmp_L2, tick_plus) ==
    IF s.L2 = <<>> THEN [s EXCEPT !.L2 = tmp_L2]
    ELSE LET front == Head(s.L2)
             priority == s.priority[front]
             waitTime == s.waitTime[front]
         IN IF waitTime + tick_plus < AgingLimit
            THEN LET r == [s EXCEPT !.waitTime[front] = waitTime + tick_plus,
                                    !.L2 = Tail(@)]
                 IN AgingL2(r, Insert(tmp_L2, front,
                                      [a, b \in Threads |-> PriorityCompare(r, a, b)]),
                            tick_plus)
            ELSE LET r == [s EXCEPT !.waitTime[front] = 0,
                                    !.priority[front] = Raised(priority),
                                    !.L2 = Tail(@)]
                 IN IF priority >= L2Promoted
                    THEN AgingL2(Promotion([r EXCEPT !.L1 =
                                               Insert(@, front,
                                                      [a, b \in Threads |-> SJFCompare(r, a, b)])],
                                           front, 1, YieldForL1(r, front)),
                                 tmp_L2, tick_plus)
                    ELSE AgingL2(r, Insert(tmp_L2, front,
                                           [a, b \in Threads |-> PriorityCompare(r, a, b)]),
                                 tick_plus)

AgingL3Loses(s, tmp_L3, tick_plus) == [s EXCEPT !.L3 = tmp_L3]

AgingL3(s, tmp_L3, tick_plus) ==
    IF s.L3 = <<>> THEN [s EXCEPT !.L3 = tmp_L3]
    ELSE LET front == Head(s.L3)
             priority == s.priority[front]
             waitTime == s.waitTime[front]
         IN IF waitTime + tick_plus < AgingLimit
            THEN AgingL3([s EXCEPT !.waitTime[front] = waitTime + tick_plus,
                                   !.L3 = Tail(@)],
                         Append(tmp_L3, front), tick_plus)
            ELSE LET r == [s EXCEPT !.waitTime[front] = 0,
                                    !.priority[front] = Raised(priority),
                                    !.L3 = Tail(@)]
                 IN IF priority >= L3Promoted
                    THEN AgingL3(Promotion([r EXCEPT !.L2 =
                                               Insert(@, front,
                                                      [a, b \in Threads |-> PriorityCompare(r, a, b)])],
                                           front, 2, YieldForL2(r, front)),
                                 tmp_L3, tick_plus)
                    ELSE AgingL3(r, Append(tmp_L3, front), tick_plus)

\* TRUE when the first loop writes through t: some L1 thread is below the limit.
WritesThroughT(s, tick_plus) ==
    \E i \in 1 .. Len(s.L1) : s.waitTime[s.L1[i]] + tick_plus < AgingLimit

Aging(s, status, t) ==
    LET tick_plus == IF status = SystemMode THEN SystemTick ELSE UserTick
    IN CHOOSE r \in
           {IF x2.fault THEN x2 ELSE AgingL3(x2, <<>>, tick_plus) :
                x2 \in {IF x1.fault THEN x1 ELSE AgingL2(x1, <<>>, tick_plus) :
                           x1 \in {AgingL1([s EXCEPT !.promoted = <<>>], <<>>,
                                           tick_plus, t)}}} : TRUE

\* The value of sched: the scheduler now, the last call on it and the
\* scheduler before that call.
NoCall(s) ==
    [now |-> s, op |-> "new", thread |-> NoThread, status |-> 0, ret |-> NoThread,
     before |-> s]

(* ----------------------------- the machine ---------------------------- *)

\* "/n1/n2/.."
RECURSIVE PathOf(_)
PathOf(ns) == IF ns = <<>> THEN <<>> ELSE <<"/">> \o Head(ns) \o PathOf(Tail(ns))

NameA == <<"a">>
NameB == <<"b">>
NameC == <<"c">>

\* the paths offered to the operations: three names at the root (one more
\* than a table holds), a file and a directory inside /a, a file inside /a/b
Paths ==
    {PathOf(ns) : ns \in {<<NameA>>, <<NameB>>, <<NameC>>, <<NameA, NameA>>,
                          <<NameA, NameB>>, <<NameA, NameB, NameA>>}}

FileSizes == {1, MaxFileSize}

\* the machine an operation starts from
Now == Machine(disk, freeMap, <<>>, halted, 0, <<>>)

\* no Read, Write or Close was the last call
NoIO == [op |-> "none", id |-> 0, size |-> 0, ret |-> 0, data |-> <<>>, wasOpen |-> FALSE]

\* one call of an operation: r is the machine it leaves
Call(op, path, size, m) ==
    /\ ~halted
    /\ steps < MaxOps
    /\ \E r \in {m} :
          /\ disk' = r.disk
          /\ freeMap' = r.map
          /\ log' = r.log
          /\ halted' = r.halted
          /\ last' = [op |-> op, path |-> path, size |-> size, ret |-> r.ret,
                      out |-> r.out, files |-> r.files, calls |-> r.calls]
    /\ steps' = steps + 1
    /\ pre' = [disk |-> disk, map |-> freeMap]
    /\ UNCHANGED <<table, res, handles, io, wrote, sched>>

Booted ==
    /\ disk = Format.disk
    /\ freeMap = Format.map
    /\ log = <<>>
    /\ halted = FALSE
    /\ last = [op |-> "Format", path |-> <<>>, size |-> 0, ret |-> 0, out |-> <<>>,
               files |-> 0, calls |-> <<>>]
    /\ steps = 0
    /\ pre = [disk |-> Format.disk, map |-> Format.map]
    /\ table = NewDirectory
    /\ res = [op |-> "new", name |-> <<>>, sector |-> 0, isDir |-> FALSE, ok |-> TRUE,
              before |-> NewDirectory]
    /\ handles = <<>>
    /\ io = NoIO
    /\ wrote = [s \in Sectors |-> <<>>]

Init == Booted /\ sched = NoCall(Scheduler)

DoCreate == \E p \in Paths, n \in FileSizes : Call("Create", p, n, Create(Now, p, n))
DoCreateDirectory == \E p \in Paths : Call("CreateDirectory", p, 0, CreateDirectory(Now, p))
DoOpen == \E p \in Paths : Call("Open", p, 0, Open(Now, p))
DoRemove == \E p \in Paths : Call("Remove", p, 0, Remove(Now, p))
DoRecurRemoveDirectory ==
    \E p \in Paths, r \in {0, 1} :
        Call("RecurRemoveDirectory", p, 0, Returning(RecurRemoveDirectory(Now, p, MaxRecur), r))
DoList == Call("List", <<>>, 0, List(Now))
DoListDirectory == \E p \in Paths \cup {<<>>} : Call("ListDirectory", p, 0, ListDirectory(Now, p))
DoRecurListDirectory ==
    \E p \in Paths \cup {<<>>} : Call("RecurListDirectory", p, 0, RecurListDirectory(Now, p))

Next ==
    \/ DoCreate
    \/ DoCreateDirectory
    \/ DoOpen
    \/ DoRemove
    \/ DoRecurRemoveDirectory
    \/ DoList
    \/ DoListDirectory
    \/ DoRecurListDirectory

Spec == Init /\ [][Next]_vars

(* ------------------ SpecDir: one Directory object --------------------- *)

\* a name longer than FileNameMaxLen, ending in x
LongName(x) == [i \in 1 .. FileNameMaxLen |-> "n"] \o <<x>>

DirNames == {NameA, NameB, NameC, LongName("x"), LongName("y")}
DirSectors == {5, 6}

DirCall(op, n, s, d, r) ==
    /\ steps < MaxDirOps
    /\ steps' = steps + 1
    /\ table' = r.table
    /\ res' = [op |-> op, name |-> n, sector |-> s, isDir |-> d, ok |-> r.ok,
               before |-> table]
    /\ UNCHANGED <<disk, freeMap, log, last, halted, pre, handles, io, wrote, sched>>

DirAdd ==
    \E n \in DirNames, s \in DirSectors, d \in BOOLEAN :
        DirCall("Add", n, s, d, Add(table, n, s, d))

DirRemove == \E n \in DirNames : DirCall("Remove", n, 0, FALSE, DirectoryRemove(table, n))

NextDir == DirAdd \/ DirRemove

SpecDir == Init /\ [][NextDir]_vars

(* ------------- SpecIO: files written and read through handles --------- *)

IOPaths == {PathOf(<<NameA>>), PathOf(<<NameB>>)}
IOSizes == {1, 2}
Buffers == UNION {[1 .. n -> {DatCell("x"), DatCell("y")}] : n \in IOSizes}
OpenIds == {i \in 1 .. Len(handles) : handles[i].open}

IOStep ==
    /\ ~halted
    /\ steps < MaxIOOps
    /\ steps' = steps + 1
    /\ pre' = [disk |-> disk, map |-> freeMap]
    /\ UNCHANGED <<table, res, sched>>

IOCreate ==
    \E p \in IOPaths, n \in IOSizes :
        \E m \in {Create(Now, p, n)} :
           /\ IOStep
           /\ disk' = m.disk /\ freeMap' = m.map /\ log' = m.log
           /\ last' = [op |-> "Create", path |-> p, size |-> n, ret |-> m.ret, out |-> m.out,
                       files |-> m.files, calls |-> m.calls]
           /\ io' = NoIO
           /\ UNCHANGED <<handles, wrote, halted>>

\* the id is 0 (NULL) when Open fails
IOOpen ==
    \E p \in IOPaths :
        \E m \in {Open(Now, p)} :
           /\ IOStep
           /\ handles' = IF m.ret >= 0 THEN Append(handles, OpenObject(disk, m.ret, p))
                         ELSE handles
           /\ last' = [op |-> "Open", path |-> p, size |-> 0,
                       ret |-> IF m.ret >= 0 THEN Len(handles) + 1 ELSE 0, out |-> <<>>,
                       files |-> m.files, calls |-> m.calls]
           /\ io' = NoIO
           /\ UNCHANGED <<disk, freeMap, log, wrote, halted>>

IOWrite ==
    \E id \in OpenIds \cup {0, -1}, b \in Buffers :
        LET r == Write(disk, handles, b, Len(b), id)
        IN /\ IOStep
           /\ disk' = r.disk /\ handles' = r.handles
           /\ io' = [op |-> "Write", id |-> id, size |-> Len(b), ret |-> r.ret, data |-> b,
                      wasOpen |-> id \in OpenIds]
           /\ wrote' = IF id <= 0 \/ r.ret = 0 THEN wrote
                       ELSE [wrote EXCEPT ![handles[id].sector] =
                               IF handles[id].seek = 0 /\ Len(b) = FileLength(handles[id])
                               THEN b ELSE <<>>]
           /\ UNCHANGED <<freeMap, log, last, halted>>

IORead ==
    \E id \in OpenIds \cup {0, -1}, n \in IOSizes :
        LET r == Read(disk, handles, n, id)
        IN /\ IOStep
           /\ disk' = r.disk /\ handles' = r.handles
           /\ io' = [op |-> "Read", id |-> id, size |-> n, ret |-> r.ret, data |-> r.data,
                      wasOpen |-> id \in OpenIds]
           /\ UNCHANGED <<freeMap, log, last, wrote, halted>>

\* Close of an id that was closed before deletes the OpenFile a second time:
\* the call either returns as usual or the allocator aborts the machine
IOClose ==
    \E id \in (1 .. Len(handles)) \cup {0, -1}, crash \in BOOLEAN :
        LET r == Close(disk, handles, id)
        IN /\ IOStep
           /\ crash => (id > 0 /\ id \notin OpenIds)
           /\ halted' = crash
           /\ disk' = r.disk /\ handles' = r.handles
           /\ io' = [op |-> "Close", id |-> id, size |-> 0, ret |-> r.ret, data |-> <<>>,
                      wasOpen |-> id \in OpenIds]
           /\ UNCHANGED <<freeMap, log, last, wrote>>

NextIO == IOCreate \/ IOOpen \/ IOWrite \/ IORead \/ IOClose

SpecIO == Init /\ [][NextIO]_vars

(* ------------- SpecPath: the same path in several spellings ----------- *)

\* "n1/n2/..": no leading separator
Bare(ns) == Tail(PathOf(ns))

\* "//n1//n2..": every separator twice
RECURSIVE Doubled(_)
Doubled(ns) == IF ns = <<>> THEN <<>> ELSE <<"/", "/">> \o Head(ns) \o Doubled(Tail(ns))

\* the spellings of one component list
Spellings(ns) == {PathOf(ns), Bare(ns), Doubled(ns)}

PathForms == UNION {Spellings(ns) : ns \in {<<NameA>>, <<NameA, NameB>>}}

PathCreate == \E p \in PathForms : Call("Create", p, 1, Create(Now, p, 1))
PathCreateDirectory == \E p \in PathForms : Call("CreateDirectory", p, 0, CreateDirectory(Now, p))
PathOpen == \E p \in PathForms : Call("Open", p, 0, Open(Now, p))
PathRemove == \E p \in PathForms : Call("Remove", p, 0, Remove(Now, p))
PathListDirectory == \E p \in PathForms : Call("ListDirectory", p, 0, ListDirectory(Now, p))

NextPath ==
    \/ PathCreate
    \/ PathCreateDirectory
    \/ PathOpen
    \/ PathRemove
    \/ PathListDirectory

SpecPath == Init /\ [][NextPath]_vars

(* ------------- SpecSched: the ready queues of the Scheduler --------------- *)

Priorities == {35, 45, 85, 95, 145}
RunningPriorities == {45, 95, 145}
Bursts == {1, 2}
Waits == {0, 1490}
Statuses == {0, 1}                  \* Interrupt::getStatus: 1 is SystemMode

\* The threads made ready in the order of their ids, then aged to their waits.
RECURSIVE Readied(_, _, _)
Readied(s, ready, t) ==
    IF t \notin Threads THEN s
    ELSE Readied(IF t \in ready THEN ReadyToRun(s, t) ELSE s, ready, t + 1)

InitSched ==
    /\ Booted
    /\ \E p1 \in RunningPriorities, b1 \in Bursts,
          p \in [Threads \ {1} -> Priorities],
          ready \in SUBSET (Threads \ {1}) :
         \E w \in [ready -> Waits] :
             \E s \in {Readied([Scheduler EXCEPT
                                   !.priority = [t \in Threads |->
                                                    IF t = 1 THEN p1 ELSE p[t]],
                                   !.burstTime = [t \in Threads |->
                                                     IF t = 1 THEN b1
                                                     ELSE IF t = 2 THEN 1 ELSE 2]],
                               ready, 1)} :
                 sched = NoCall([s EXCEPT !.waitTime =
                                    [t \in Threads |-> IF t \in ready THEN w[t] ELSE 0]])

Ready(s) == {s.L1[i] : i \in 1 .. Len(s.L1)} \cup {s.L2[i] : i \in 1 .. Len(s.L2)}
            \cup {s.L3[i] : i \in 1 .. Len(s.L3)}

SchedCall(op, thread, status, r, ret) ==
    /\ ~halted
    /\ steps < MaxSchedOps
    /\ steps' = steps + 1
    /\ \E s \in {r} :
           /\ sched' = [now |-> s, op |-> op, thread |-> thread, status |-> status,
                        ret |-> ret, before |-> sched.now]
           /\ halted' = s.fault
    /\ UNCHANGED <<disk, freeMap, log, last, pre, table, res, handles, io, wrote>>

\* A thread that is neither ready, nor running, nor about to run is made ready.
DoReadyToRun ==
    \E t \in Threads \ (Ready(sched.now) \cup {sched.now.currentThread,
                                               sched.now.nextThread}) :
        SchedCall("ReadyToRun", t, 0, ReadyToRun(sched.now, t), NoThread)

DoFindNextToRun ==
    /\ sched.now.nextThread = NoThread
    /\ \E f \in {FindNextToRun(sched.now)} :
           SchedCall("FindNextToRun", NoThread, 0,
                     [f.s EXCEPT !.nextThread = f.ret], f.ret)

DoRun ==
    /\ sched.now.nextThread # NoThread
    /\ SchedCall("Run", sched.now.nextThread, 0,
                 [Run(sched.now, sched.now.nextThread) EXCEPT !.nextThread = NoThread],
                 NoThread)

\* The timer interrupt: in either machine status, and with every outcome of the
\* write through t when the first loop makes it.
DoAging ==
    \E status \in Statuses :
        \E t \in IF WritesThroughT(sched.now, IF status = SystemMode THEN SystemTick
                                               ELSE UserTick)
                 THEN Wild ELSE {Stray} :
            SchedCall("Aging", NoThread, status, Aging(sched.now, status, t), NoThread)

NextSched == DoReadyToRun \/ DoFindNextToRun \/ DoRun \/ DoAging

SpecSched == InitSched /\ [][NextSched]_vars

(* ------------------------------ claims -------------------------------- *)

\* the table stored in the file whose header is at `sector`
TableOf(d, sector) == FetchFrom(NewDirectory, d, OpenFile(d, sector))

\* the sector reached from the file at `sector` by looking folder[i+1 .. k] up,
\* each name in the table stored in the file reached before it; -1 when a
\* name is not in that table
RECURSIVE Lookup(_, _, _, _, _)
Lookup(d, sector, folder, i, k) ==
    IF i >= k THEN sector
    ELSE LET s == Find(TableOf(d, sector), folder[i + 1])
         IN IF s = -1 THEN -1 ELSE Lookup(d, s, folder, i + 1, k)

\* the header sector of the parent directory of path, -1 when it does not resolve
ParentOf(d, path) == Lookup(d, DirectorySector, Folder(path), 0, Len(Folder(path)) - 1)

\* the header sector path names, -1 when there is none
SectorOf(d, path) ==
    IF ParentOf(d, path) = -1 THEN -1
    ELSE Find(TableOf(d, ParentOf(d, path)), Folder(path)[Len(Folder(path))])

\* the entry path names (only where SectorOf is not -1)
EntryOf(d, path) ==
    LET t == TableOf(d, ParentOf(d, path))
    IN t[FindIndex(t, Folder(path)[Len(Folder(path))])]

Unchanged == disk = pre.disk /\ freeMap = pre.map

\* C1: whenever Create returns false, the bitmap file and every sector of the
\* disk (tables, headers) are what they were before the call
C1_CreateFailureKeepsDisk == (last.op = "Create" /\ last.ret = 0) => Unchanged

\* a Create that failed for lack of data sectors after it had taken the header
\* sector in its copy of the bitmap
C1_Witness ==
    /\ last.op = "Create" /\ last.ret = 0
    /\ last.out = <<Message("no space on disk for data!!!.")>>
    /\ FindFree(freeMap) # -1

\* the machine after the last operation, as the next operation finds it
After == Machine(disk, freeMap, <<>>, halted, 0, <<>>)
Before == Machine(pre.disk, pre.map, <<>>, FALSE, 0, <<>>)

\* q is path or lies below it
Below(path, q) ==
    /\ Len(Folder(q)) >= Len(Folder(path))
    /\ SubSeq(Folder(q), 1, Len(Folder(path))) = Folder(path)

\* the header sector and the data sectors of the file whose header is at `sector`
FileSectors(d, sector) ==
    {sector} \cup {AsHeader(d[sector]).dataSectors[i] :
                      i \in 1 .. Len(AsHeader(d[sector]).dataSectors)}

\* the sectors of the directory at `sector` and of everything below it
RECURSIVE TreeSectors(_, _, _)
TreeSectors(d, sector, fuel) ==
    FileSectors(d, sector) \cup
    UNION {IF TableOf(d, sector)[i].isDir /\ fuel > 0
           THEN TreeSectors(d, TableOf(d, sector)[i].sector, fuel - 1)
           ELSE FileSectors(d, TableOf(d, sector)[i].sector) :
           i \in {j \in Slots : TableOf(d, sector)[j].inUse}}

\* before the last operation, last.path named a directory with an entry in use
WasFilledDirectory ==
    /\ SectorOf(pre.disk, last.path) # -1
    /\ EntryOf(pre.disk, last.path).isDir
    /\ \E i \in Slots : TableOf(pre.disk, SectorOf(pre.disk, last.path))[i].inUse

\* C2: after RecurRemoveDirectory(d) on a directory d that contains entries,
\* Open of d and of every path below d gives the invalid handle, and the
\* header and data sectors of d and of everything that was below it are free
\* in the bitmap file
C2_RecurRemoveFreesTree ==
    (last.op = "RecurRemoveDirectory" /\ ~halted /\ WasFilledDirectory) =>
        /\ \A q \in Paths : Below(last.path, q) => Open(After, q).ret = -1
        /\ \A s \in TreeSectors(pre.disk, SectorOf(pre.disk, last.path), MaxRecur) :
              ~freeMap[s]

\* C3: a successful Remove of a regular file makes Open of it fail and frees
\* its header and data sectors in the bitmap file and nothing else, so that a
\* Create of the same path and size succeeds at once; and a successful Remove
\* right after a successful Create of the same path gives back the bitmap
\* file of before the Create
C3_RemoveReclaims ==
    /\ (last.op = "Remove" /\ last.ret = 1 /\ ~halted
        /\ SectorOf(pre.disk, last.path) # -1 /\ ~EntryOf(pre.disk, last.path).isDir) =>
          LET sector == SectorOf(pre.disk, last.path)
          IN /\ Open(After, last.path).ret = -1
             /\ freeMap = [s \in Sectors |->
                             pre.map[s] /\ s \notin FileSectors(pre.disk, sector)]
             /\ Create(After, last.path, AsHeader(pre.disk[sector]).numBytes).ret = 1
    /\ (last.op = "Create" /\ last.ret = 1 /\ Remove(After, last.path).ret = 1) =>
          Remove(After, last.path).map = pre.map

\* a regular file removed from a disk that had no free sector
C3_Witness ==
    /\ last.op = "Remove" /\ last.ret = 1
    /\ NumClear(pre.map) = 0
    /\ ~EntryOf(pre.disk, last.path).isDir
    /\ NumClear(freeMap) = 1 + MaxFileSize

\* C4: Open gives a handle on the header sector recorded for the final
\* component when every component before it is found in the table of the file
\* reached so far and the final component is in use in the parent's table, and
\* the invalid handle in every other case
C4_OpenResolves == last.op = "Open" => last.ret = SectorOf(pre.disk, last.path)

\* C5: Open, List, ListDirectory and RecurListDirectory leave the bitmap file
\* and every sector of the disk as they were
C5_QueriesKeepDisk ==
    last.op \in {"Open", "List", "ListDirectory", "RecurListDirectory"} => Unchanged

\* Open("/a/b") failed while /a does not exist, on a disk that holds a file
C5_Witness ==
    /\ last.op = "Open" /\ last.ret = -1
    /\ last.path = PathOf(<<NameA, NameB>>)
    /\ SectorOf(disk, PathOf(<<NameA>>)) = -1
    /\ SectorOf(disk, PathOf(<<NameB>>)) # -1

\* the header sectors of the directories reachable from the root
RECURSIVE Reach(_, _, _)
Reach(d, frontier, seen) ==
    IF frontier \subseteq seen THEN seen
    ELSE Reach(d,
               {TableOf(d, s)[i].sector :
                   <<s, i>> \in {x \in (frontier \ seen) \X Slots :
                                   TableOf(d, x[1])[x[2]].inUse /\ TableOf(d, x[1])[x[2]].isDir}},
               seen \cup frontier)

ReachableDirs(d) == Reach(d, {DirectorySector}, {})

InUseSlots(t) == {i \in Slots : t[i].inUse}

\* C9: after any sequence of Create, CreateDirectory, Remove and
\* RecurRemoveDirectory on a formatted disk, no table reachable from the root
\* has two in-use entries of the same name, nor more in-use entries than slots
C9_UniqueNames ==
    ~halted =>
        \A s \in ReachableDirs(disk) :
            LET t == TableOf(disk, s)
            IN /\ \A i, j \in InUseSlots(t) : i # j => ~SameName(t[i].name, t[j].name)
               /\ Cardinality(InUseSlots(t)) <= NumDirEntries

\* a name that is already in a full directory below the root was refused
C9_Witness ==
    /\ last.op = "CreateDirectory" /\ last.ret = 0
    /\ SectorOf(disk, last.path) # -1
    /\ ParentOf(disk, last.path) # DirectorySector
    /\ Cardinality(InUseSlots(TableOf(disk, ParentOf(disk, last.path)))) = NumDirEntries

\* C10: CreateDirectory of a path with a non-final component that is not in
\* the table of the file reached so far returns false and leaves the bitmap
\* file and every sector of the disk as they were
C10_NoMissingIntermediate ==
    (last.op = "CreateDirectory" /\ ParentOf(pre.disk, last.path) = -1) =>
        (last.ret = 0 /\ Unchanged)

\* C6: a Read of a whole file from its start gives back the buffer that
\* was last written over the whole file, through whichever handle; and two
\* handles opened on the same path are on the same header sector
C6_ReadsBackWhatWasWritten ==
    /\ (io.op = "Read" /\ io.id > 0
        /\ handles[io.id].seek = io.ret
        /\ io.size = FileLength(handles[io.id])
        /\ wrote[handles[io.id].sector] # <<>>) =>
          (io.ret = io.size /\ io.data = wrote[handles[io.id].sector])
    /\ \A i, j \in 1 .. Len(handles) :
          handles[i].path = handles[j].path => handles[i].sector = handles[j].sector

\* Create, Open, Write of the whole file, Close, Open again, Read of the whole file
C6_Witness ==
    /\ io.op = "Read" /\ io.id > 1 /\ io.ret = 2 /\ io.size = 2
    /\ wrote[handles[io.id].sector] = io.data
    /\ \E w \in 1 .. (io.id - 1) :
          /\ ~handles[w].open /\ handles[w].seek = 2
          /\ handles[w].path = handles[io.id].path
    /\ handles[io.id].seek = 2

\* the slots of t in use under a name the table takes for n
Holding(t, n) == {i \in Slots : t[i].inUse /\ t[i].name = Trunc(n)}
Full(t) == \A i \in Slots : t[i].inUse

\* C7: an Add of a name the table does not hold, when it succeeds, makes
\* Find of that name return the sector given and leaves Find of every other
\* name as it was; an Add of a name the table holds returns false and leaves
\* the table unchanged, whatever the sector and the flag
C7_AddThenFind ==
    res.op = "Add" =>
        /\ (Holding(res.before, res.name) = {} /\ res.ok) =>
              /\ Find(table, res.name) = res.sector
              /\ \A n \in DirNames :
                    Trunc(n) # Trunc(res.name) => Find(table, n) = Find(res.before, n)
        /\ Holding(res.before, res.name) # {} =>
              /\ ~res.ok
              /\ table = res.before
              /\ \A i \in Holding(res.before, res.name) :
                    Find(table, res.name) = res.before[i].sector

\* n1 and n2 added to the empty table with different sectors, then n1 added
\* again with the other sector and the other flag
C7_Witness ==
    /\ steps = 3 /\ res.op = "Add" /\ ~res.ok
    /\ Full(table)
    /\ table[0].sector # table[1].sector
    /\ \E i \in Holding(table, res.name) :
          table[i].sector # res.sector /\ table[i].isDir # res.isDir
    /\ \A i \in Slots : Find(table, table[i].name) = table[i].sector

\* C8: on a full table an Add of a new name returns false and leaves the
\* table unchanged; a Remove of a present name returns true and frees a
\* slot, and an Add of a new name to a table with a free slot succeeds
C8_FullThenRemove ==
    /\ (res.op = "Add" /\ Holding(res.before, res.name) = {}) =>
          IF Full(res.before) THEN ~res.ok /\ table = res.before
          ELSE res.ok /\ Holding(table, res.name) # {}
    /\ (res.op = "Remove" /\ Holding(res.before, res.name) # {}) =>
          /\ res.ok /\ ~Full(table)
          /\ \A n \in DirNames, s \in DirSectors, d \in BOOLEAN :
                Holding(table, n) = {} => Add(table, n, s, d).ok

\* NumDirEntries Adds fill the table, the next Add fails, a Remove frees a
\* slot, and the Add that failed now succeeds
C8_Witness ==
    /\ steps = NumDirEntries + 3 /\ res.op = "Add" /\ res.ok
    /\ ~Full(res.before) /\ Full(table)
    /\ Trunc(res.name) \notin {res.before[i].name : i \in Slots}

\* the path of the first k components of path
Prefix(path, k) == PathOf(SubSeq(Folder(path), 1, k))

\* some non-final component of path names a regular file, every component
\* before it naming a directory
ThroughFile(d, path) ==
    \E k \in 1 .. (Len(Folder(path)) - 1) :
        /\ SectorOf(d, Prefix(path, k)) # -1
        /\ ~EntryOf(d, Prefix(path, k)).isDir
        /\ \A j \in 1 .. (k - 1) : EntryOf(d, Prefix(path, j)).isDir

\* what an operation returns when it fails
Failure(op) == IF op = "Open" THEN -1 ELSE 0

\* C11: Create, CreateDirectory, Open and Remove of a path in which a
\* non-final component names a regular file fail and leave the bitmap file
\* and every sector of the disk as they were
C11_NoWalkThroughFile ==
    (/\ last.op \in {"Create", "CreateDirectory", "Open", "Remove"}
     /\ ThroughFile(pre.disk, last.path)) =>
        (last.ret = Failure(last.op) /\ Unchanged)

\* C12: Create and CreateDirectory of a path whose final name is in use in
\* the parent's table return false and leave the bitmap file and every
\* sector of the disk (so the entry, its sector and its tag) as they were
C12_ExistingNameRefused ==
    (/\ last.op \in {"Create", "CreateDirectory"}
     /\ SectorOf(pre.disk, last.path) # -1) =>
        (last.ret = 0 /\ Unchanged)

\* CreateDirectory of the name of a regular file in a directory below the
\* root was refused while the disk had room for a directory
C12_Witness ==
    /\ last.op = "CreateDirectory" /\ last.ret = 0
    /\ Len(Folder(last.path)) = 2
    /\ SectorOf(disk, last.path) # -1
    /\ ~EntryOf(disk, last.path).isDir
    /\ EntryOf(disk, Prefix(last.path, 1)).isDir
    /\ NumClear(freeMap) > NumDirEntries

\* C13: Remove of a path whose parent does not resolve, or whose final name
\* is not in use in the parent's table, returns false and leaves the bitmap
\* file and every sector of the disk as they were; so it returns true only
\* when the entry existed
C13_RemoveOfAbsentName ==
    (last.op = "Remove" /\ SectorOf(pre.disk, last.path) = -1) =>
        (last.ret = 0 /\ Unchanged)

\* C14: no operation aborts the machine, and an operation that reports
\* failure leaves the bitmap file and every sector of the disk as they were
C14_NoFatalFailure ==
    /\ ~halted
    /\ (/\ last.op \in {"Create", "CreateDirectory", "Open", "Remove"}
        /\ last.ret = Failure(last.op)) => Unchanged

\* C15: Close returns 1 exactly when its id named an open handle, which is
\* then released; Close of an id that is zero, negative or already closed
\* returns 0 and has no effect
C15_CloseOnlyOpenHandles ==
    io.op = "Close" =>
        /\ ~halted
        /\ io.ret = (IF io.wasOpen THEN 1 ELSE 0)
        /\ io.wasOpen => ~handles[io.id].open

\* C16: Read and Write with an id that is zero or negative return 0 and
\* transfer nothing; with an open handle they return a count from 0 to size
C16_TransferCounts ==
    io.op \in {"Read", "Write"} =>
        IF io.id <= 0
        THEN /\ io.ret = 0
             /\ disk = pre.disk
             /\ io.op = "Read" => io.data = <<>>
        ELSE /\ 0 <= io.ret /\ io.ret <= io.size
             /\ io.op = "Read" => Len(io.data) = io.ret

\* a Write with a negative id while a handle is open on a file, right after
\* a Read through that handle returned fewer units than it asked for
C16_Witness ==
    /\ io.op = "Write" /\ io.id < 0 /\ io.size = 2
    /\ \E i \in OpenIds : handles[i].seek = 1 /\ FileLength(handles[i]) = 1

\* C17: after formatting and after any sequence of operations, sectors 0
\* and 1 are marked in the bitmap file, they hold the headers the
\* constructor wrote (the root's table is read from the header at sector 1),
\* and no in-use entry of a table reachable from the root has sector 0 or 1
C17_PinnedSectors ==
    /\ freeMap[FreeMapSector] /\ freeMap[DirectorySector]
    /\ disk[FreeMapSector] = Format.disk[FreeMapSector]
    /\ disk[DirectorySector] = Format.disk[DirectorySector]
    /\ \A s \in ReachableDirs(disk) :
          \A i \in InUseSlots(TableOf(disk, s)) :
              TableOf(disk, s)[i].sector \notin {FreeMapSector, DirectorySector}

\* a directory below the root holds an entry, after a Remove or a
\* RecurRemoveDirectory that freed sectors
C17_Witness ==
    /\ last.op \in {"Remove", "RecurRemoveDirectory"}
    /\ NumClear(freeMap) > NumClear(pre.map)
    /\ \E s \in ReachableDirs(disk) \ {DirectorySector} : InUseSlots(TableOf(disk, s)) # {}

\* the machine the operation op leaves when called with path on the state
\* before the last operation
Redo(op, path) ==
    IF op = "Create" THEN Create(Before, path, last.size)
    ELSE IF op = "CreateDirectory" THEN CreateDirectory(Before, path)
    ELSE IF op = "Open" THEN Open(Before, path)
    ELSE IF op = "Remove" THEN Remove(Before, path)
    ELSE ListDirectory(Before, path)

\* C18: "/a/b", "a/b" and "//a//b" are split into the same components, and
\* each of Create, CreateDirectory, Open, Remove and ListDirectory gives the
\* same result, the same output and the same disk and bitmap file whichever
\* spelling it is called with
C18_SeparatorsInsignificant ==
    last.op \in {"Create", "CreateDirectory", "Open", "Remove", "ListDirectory"} =>
        \A q \in Spellings(Folder(last.path)) :
            /\ Folder(q) = Folder(last.path)
            /\ Redo(last.op, q).ret = last.ret
            /\ Redo(last.op, q).out = last.out
            /\ Redo(last.op, q).disk = disk
            /\ Redo(last.op, q).map = freeMap

\* a file created as "//a//b" in the directory that was created as "a"
C18_Witness ==
    /\ last.op = "Create" /\ last.ret = 1
    /\ last.path = Doubled(<<NameA, NameB>>)
    /\ SectorOf(disk, Bare(<<NameA>>)) # -1
    /\ EntryOf(disk, Bare(<<NameA>>)).isDir
    /\ SectorOf(disk, PathOf(<<NameA, NameB>>)) # -1

\* every component of path, the last one too, names a directory
IsDirPath(d, path) ==
    \A k \in 1 .. Len(Folder(path)) :
        SectorOf(d, Prefix(path, k)) # -1 /\ EntryOf(d, Prefix(path, k)).isDir

\* the header sector of the directory path names; the root for the empty path
DirSectorOf(d, path) == IF Folder(path) = <<>> THEN DirectorySector ELSE SectorOf(d, path)

RECURSIVE Flatten(_)
Flatten(ss) == IF ss = <<>> THEN <<>> ELSE Head(ss) \o Flatten(Tail(ss))

\* the listing of the directory at `sector` at depth `depth`: for each slot in
\* use, in slot order, its line and, for a directory, the listing of that
\* directory one level deeper; one "Empty Folder" line when no slot is in use
RECURSIVE Listing(_, _, _)
Listing(d, sector, depth) ==
    LET t == TableOf(d, sector)
    IN IF InUseSlots(t) = {} THEN <<<<2 * depth, <<>>, "Empty Folder">>>>
       ELSE Flatten([k \in 1 .. NumDirEntries |->
               IF ~t[k - 1].inUse THEN <<>>
               ELSE IF t[k - 1].isDir
               THEN <<<<2 * depth, t[k - 1].name, "[D]">>>>
                    \o Listing(d, t[k - 1].sector, depth + 1)
               ELSE <<<<2 * depth, t[k - 1].name, "[F]">>>>])

\* C19: RecurListDirectory of a directory prints, in slot order, one line
\* per in-use entry indented by twice the depth and tagged [F] or [D], the
\* listing of a subdirectory one level deeper right after its [D] line, and
\* one "Empty Folder" line for a table with no entry in use
C19_RecurListFormat ==
    (last.op = "RecurListDirectory" /\ IsDirPath(pre.disk, last.path)) =>
        last.out = Listing(pre.disk, DirSectorOf(pre.disk, last.path), 0)

\* a listing with a file, a directory and, one level below that directory,
\* the line of an empty folder
C19_Witness ==
    /\ last.op = "RecurListDirectory"
    /\ \E i, j, k \in 1 .. Len(last.out) :
          /\ last.out[i][3] = "[F]"
          /\ last.out[j][3] = "[D]"
          /\ k = j + 1
          /\ last.out[k] = <<last.out[j][1] + 2, <<>>, "Empty Folder">>

\* the lines of the in-use entries of table t, in slot order
Immediate(t) ==
    Flatten([k \in 1 .. NumDirEntries |->
               IF t[k - 1].inUse
               THEN <<<<0, t[k - 1].name, IF t[k - 1].isDir THEN "[D]" ELSE "[F]">>>>
               ELSE <<>>])

\* C20: ListDirectory of a path whose components are all found prints the
\* in-use entries of the table the last component names, each tagged [F] or
\* [D], and nothing of any nested table; when a component is not found it
\* prints no entry, only "No such directory"
C20_ListsTargetOnly ==
    last.op = "ListDirectory" =>
        IF DirSectorOf(pre.disk, last.path) # -1
        THEN last.out = Immediate(TableOf(pre.disk, DirSectorOf(pre.disk, last.path)))
        ELSE last.out = <<<<0, <<>>, "No such directory">>>>

\* C21: a successful Create writes back exactly three things, in this
\* order: the new header to its sector (a sector that was free), the
\* parent's table to the parent's file, the bitmap to its file; a Create
\* that fails writes nothing
C21_CreateWriteOrder ==
    last.op = "Create" =>
        IF last.ret = 1
        THEN /\ Len(log) = 3
             /\ log[1][1] = "hdr" /\ ~pre.map[log[1][2]] /\ freeMap[log[1][2]]
             /\ disk[log[1][2]][1] = "hdr"
             /\ log[2][1] = "dir"
             /\ ParentOf(pre.disk, last.path) # -1 => log[2][2] = ParentOf(pre.disk, last.path)
             /\ log[3] = <<"map", FreeMapSector>>
        ELSE log = <<>> /\ Unchanged

\* a file created in a directory below the root
C21_Witness ==
    /\ last.op = "Create" /\ last.ret = 1
    /\ Len(log) = 3 /\ log[2][2] # DirectorySector
    /\ EntryOf(disk, Prefix(last.path, 1)).isDir
    /\ log[1][2] = SectorOf(disk, last.path)

\* C22: a successful CreateDirectory adds to the parent's table one entry
\* tagged as a directory, whose header maps a region of the size of a table;
\* the region holds a table with no slot in use (ListDirectory of the new
\* directory prints nothing); and the write-backs are the header, the new
\* table, the parent's table and, last, the bitmap
C22_NewDirectoryIsEmpty ==
    (last.op = "CreateDirectory" /\ last.ret = 1) =>
        /\ log = <<<<"hdr", log[1][2]>>, <<"newdir", log[1][2]>>,
                   <<"dir", log[3][2]>>, <<"map", FreeMapSector>>>>
        /\ AsHeader(disk[log[1][2]]).numBytes = DirectoryFileSize
        /\ Len(AsHeader(disk[log[1][2]]).dataSectors) = DirectoryFileSize
        /\ InUseSlots(TableOf(disk, log[1][2])) = {}
        /\ SectorOf(disk, last.path) = log[1][2]
        /\ EntryOf(disk, last.path).isDir
        /\ ListDirectory(After, last.path).out = <<>>
        /\ Cardinality(InUseSlots(TableOf(disk, log[3][2]))) =
              Cardinality(InUseSlots(TableOf(pre.disk, log[3][2]))) + 1

\* C23: a successful Add fills the unused slot of lowest index with the
\* entry and changes no other slot; so a slot freed by Remove is taken by the
\* next Add when no lower slot is unused
C23_AddTakesLowestSlot ==
    (res.op = "Add" /\ res.ok) =>
        \E i \in Slots :
            /\ ~res.before[i].inUse
            /\ \A j \in Slots : j < i => res.before[j].inUse
            /\ table[i] = [inUse |-> TRUE, isDir |-> res.isDir, sector |-> res.sector,
                           name |-> Trunc(res.name)]
            /\ \A j \in Slots : j # i => table[j] = res.before[j]

\* an Add into slot 0, which a Remove had freed, below a slot still in use
C23_Witness ==
    /\ res.op = "Add" /\ res.ok
    /\ ~res.before[0].inUse /\ res.before[0].name # <<>>
    /\ res.before[1].inUse
    /\ table[0].inUse /\ table[0].name # res.before[0].name
    /\ table[1] = res.before[1]

\* C24: Parse with creating = true looks the components before the last one
\* up, each in the table of the directory reached before it, and returns a
\* handle on the directory reached (the root for a single component); with
\* creating = false it looks all of them up and returns a handle on what the
\* last one names; a component that is not found makes it return none
C24_ParseStopsShort ==
    \A path \in Paths :
        /\ Parse(disk, path, TRUE).file =
              (IF ParentOf(disk, path) = -1 THEN NoFile
               ELSE OpenFile(disk, ParentOf(disk, path)))
        /\ Parse(disk, path, FALSE).file =
              (IF SectorOf(disk, path) = -1 THEN NoFile
               ELSE OpenFile(disk, SectorOf(disk, path)))

\* C25: no directory handle is leaked.  Parse leaves no handle open when it
\* returns none and one when it succeeds; when Create, CreateDirectory,
\* Remove, RecurRemoveDirectory, ListDirectory or RecurListDirectory has
\* returned, as many handles are open as before the call, and after Open one
\* more exactly when Open succeeded
C25_NoHandleLeak ==
    /\ \A path \in Paths, create \in BOOLEAN :
          LET p == Parse(disk, path, create)
          IN p.open = (IF p.file = NoFile THEN 0 ELSE 1)
    /\ ~halted =>
          /\ last.op \in {"Create", "CreateDirectory", "Remove", "RecurRemoveDirectory",
                          "ListDirectory", "RecurListDirectory"} => last.files = 0
          /\ last.op = "Open" => last.files = (IF last.ret = -1 THEN 0 ELSE 1)

\* an operation that failed on the second of three components: Parse had
\* opened the root and the directory the first component names
C25_Witness ==
    /\ last.op \in {"Create", "Remove"} /\ last.ret = 0 /\ ~halted
    /\ last.out = <<Message("No such directory.")>>
    /\ Len(Folder(last.path)) = 3
    /\ SectorOf(pre.disk, Prefix(last.path, 1)) # -1
    /\ EntryOf(pre.disk, Prefix(last.path, 1)).isDir
    /\ last.files = 0

RECURSIVE RemovalCalls(_, _, _, _, _)
RemovalCalls(d, path, sector, i, depth) ==
    IF i >= NumDirEntries THEN <<>>
    ELSE LET e == TableOf(d, sector)[i]
             str == path \o <<"/">> \o e.name
         IN (IF ~e.inUse THEN <<>>
             ELSE IF e.isDir /\ depth > 0
             THEN <<<<"RecurRemoveDirectory", str>>>>
                  \o RemovalCalls(d, str, e.sector, 0, depth - 1)
             ELSE <<<<"Remove", str>>>>)
            \o RemovalCalls(d, path, sector, i + 1, depth)

RECURSIVE RemovalLog(_, _, _, _, _)
RemovalLog(d, sector, parent, i, depth) ==
    IF i >= NumDirEntries
    THEN <<<<"map", FreeMapSector>>, <<"dir", parent>>>>
    ELSE LET e == TableOf(d, sector)[i]
         IN (IF ~e.inUse THEN <<>>
             ELSE IF e.isDir /\ depth > 0 THEN RemovalLog(d, e.sector, sector, 0, depth - 1)
             ELSE <<<<"map", FreeMapSector>>, <<"dir", sector>>>>)
            \o RemovalLog(d, sector, parent, i + 1, depth)

\* C27: RecurRemoveDirectory(d) on a directory d takes the entries of d in
\* slot order, a file by Remove and a subdirectory by recursion, and removes
\* d itself from its parent after them, as the last write-backs; when it has
\* returned, the table d had on the disk has no entry in use
C27_ChildrenFirst ==
    (/\ last.op = "RecurRemoveDirectory" /\ ~halted
     /\ IsDirPath(pre.disk, last.path)) =>
        LET sector == SectorOf(pre.disk, last.path)
            parent == ParentOf(pre.disk, last.path)
        IN /\ last.calls = RemovalCalls(pre.disk, last.path, sector, 0, MaxRecur)
           /\ log = RemovalLog(pre.disk, sector, parent, 0, MaxRecur)
           /\ InUseSlots(TableOf(disk, sector)) = {}
           /\ SectorOf(disk, last.path) = -1
           /\ \A q \in Paths : Below(last.path, q) => SectorOf(disk, q) = -1

\* a directory removed that held a file in its first slot and a
\* subdirectory in its second
C27_Witness ==
    /\ last.op = "RecurRemoveDirectory" /\ ~halted
    /\ IsDirPath(pre.disk, last.path)
    /\ LET t == TableOf(pre.disk, SectorOf(pre.disk, last.path))
       IN /\ t[0].inUse /\ ~t[0].isDir
          /\ t[1].inUse /\ t[1].isDir
    /\ Len(last.calls) = 2
    /\ Len(log) = 6

\* C28: RecurRemoveDirectory of a path whose last component names a regular
\* file does not take the file's data for a table: it removes nothing for an
\* entry read from it, so every other entry keeps its sectors in the bitmap
\* file
C28_RegularFileNotATable ==
    (/\ last.op = "RecurRemoveDirectory"
     /\ SectorOf(pre.disk, last.path) # -1
     /\ ~EntryOf(pre.disk, last.path).isDir) =>
        /\ last.calls = <<>>
        /\ \A s \in Sectors :
              (pre.map[s] /\ s \notin FileSectors(pre.disk, SectorOf(pre.disk, last.path)))
                  => freeMap[s]

\* a and b have the same first FileNameMaxLen characters
Agree(a, b) ==
    \A i \in 1 .. FileNameMaxLen :
        (i <= Len(a) \/ i <= Len(b)) => (i <= Len(a) /\ i <= Len(b) /\ a[i] = b[i])

\* C29: a name longer than FileNameMaxLen is cut, not refused: Add of it
\* succeeds wherever Add of a name can, and stores its first FileNameMaxLen
\* characters; after an Add, Find of every name with the same first
\* FileNameMaxLen characters gives the sector added and an Add of such a name
\* returns false
C29_LongNamesTruncated ==
    /\ (/\ res.op = "Add"
        /\ ~Full(res.before)
        /\ \A i \in Slots : res.before[i].inUse => ~Agree(res.before[i].name, res.name))
           => res.ok
    /\ (res.op = "Add" /\ res.ok) =>
          /\ \E i \in Slots :
                /\ table[i].inUse /\ table[i].sector = res.sector
                /\ table[i].name = SubSeq(res.name, 1, Min(Len(res.name), FileNameMaxLen))
          /\ \A n \in DirNames : Agree(n, res.name) =>
                /\ Find(table, n) = res.sector
                /\ \A s \in DirSectors, d \in BOOLEAN : ~Add(table, n, s, d).ok
    /\ (/\ res.op = "Add"
        /\ \E i \in Slots : res.before[i].inUse /\ Agree(res.before[i].name, res.name)) =>
          /\ ~res.ok /\ table = res.before
          /\ \A i \in Slots : (table[i].inUse /\ Agree(table[i].name, res.name)) =>
                Find(table, res.name) = table[i].sector

\* a long name refused in a table with room, because another long name with
\* the same first characters was added before it
C29_Witness ==
    /\ res.op = "Add" /\ ~res.ok /\ ~Full(table)
    /\ res.name = LongName("y")
    /\ \E i \in Slots : table[i].inUse /\ Len(table[i].name) = FileNameMaxLen
    /\ Find(table, LongName("x")) # -1
    /\ Find(table, LongName("y")) = Find(table, LongName("x"))

\* the entries in use in the tables reachable from the root: <<directory, slot>>
ReachableEntries(d) ==
    {x \in ReachableDirs(d) \X Slots : TableOf(d, x[1])[x[2]].inUse}

\* the header sector and the data sectors of the entry x
SectorsOfEntry(d, x) == FileSectors(d, TableOf(d, x[1])[x[2]].sector)

\* C30: after any sequence of completed Create, CreateDirectory, Remove and
\* RecurRemoveDirectory calls on a formatted disk, the header sector and the
\* data sectors of every in-use entry reachable from the root are marked in
\* the bitmap file, and no sector is the header or a data sector of two such
\* entries
C30_ReferencedSectorsAllocated ==
    ~halted =>
        /\ \A x \in ReachableEntries(disk) : \A s \in SectorsOfEntry(disk, x) : freeMap[s]
        /\ \A x, y \in ReachableEntries(disk) :
              x # y => SectorsOfEntry(disk, x) \cap SectorsOfEntry(disk, y) = {}

\* a file created in sectors that a removed file had held, beside an entry
\* that stayed
C30_Witness ==
    /\ last.op \in {"Create", "CreateDirectory"} /\ last.ret = 1
    /\ Cardinality(ReachableEntries(disk)) >= 2
    /\ \E s \in Sectors : ~pre.map[s] /\ freeMap[s] /\ disk[s] # pre.disk[s]
                          /\ pre.disk[s] # ZeroCell

\* the sectors the bitmap file may hold as used: those of the bitmap file and
\* of the root directory file, and those of the entries reachable from the root
Referenced(d) ==
    FileSectors(d, FreeMapSector) \cup FileSectors(d, DirectorySector)
    \cup UNION {SectorsOfEntry(d, x) : x \in ReachableEntries(d)}

\* C31: after any sequence of completed Create, CreateDirectory, Remove and
\* RecurRemoveDirectory calls on a formatted disk, every sector marked in the
\* bitmap file is sector 0 or 1, a data sector of the bitmap file or of the
\* root directory file, or the header or a data sector of an entry reachable
\* from the root
C31_NoSectorLeaked ==
    ~halted => \A s \in Sectors : freeMap[s] => s \in Referenced(disk)

(* ----------------------- claims on the Scheduler ------------------------- *)

\* The threads of the three ready queues, L1 first.
Queued(s) == s.L1 \o s.L2 \o s.L3

\* The band of a priority: the level of the ready queue it belongs in.
Band(priority) ==
    IF priority >= L1Floor THEN 1 ELSE IF priority >= L2Floor THEN 2 ELSE 3

Level(s, t) ==
    IF \E i \in 1 .. Len(s.L1) : s.L1[i] = t THEN 1
    ELSE IF \E i \in 1 .. Len(s.L2) : s.L2[i] = t THEN 2
    ELSE IF \E i \in 1 .. Len(s.L3) : s.L3[i] = t THEN 3 ELSE 0

\* C32: FindNextToRun returns NULL exactly when L1, L2 and L3 are all empty;
\* otherwise it removes and returns the front thread of the highest non-empty
\* level, L1 before L2 before L3, and the thread returned is in no ready queue
\* afterwards.
C32_FindNextToRunTakesHighestFront ==
    sched.op = "FindNextToRun" =>
        LET b == sched.before
            n == sched.now
        IN /\ (sched.ret = NoThread) <=> (b.L1 = <<>> /\ b.L2 = <<>> /\ b.L3 = <<>>)
           /\ sched.ret # NoThread =>
                  /\ sched.ret = Head(Queued(b))
                  /\ Queued(n) = Tail(Queued(b))
                  /\ Len(n.L1) = Len(b.L1) - (IF b.L1 # <<>> THEN 1 ELSE 0)
                  /\ Len(n.L2) = Len(b.L2) - (IF b.L1 = <<>> /\ b.L2 # <<>> THEN 1 ELSE 0)
                  /\ sched.ret \notin Ready(n)
           /\ sched.ret = NoThread => Queued(n) = <<>>

\* C32 witness: with L1 empty and threads in both L2 and L3, the front of L2 was
\* returned.
C32_Witness ==
    /\ sched.op = "FindNextToRun"
    /\ sched.before.L1 = <<>>
    /\ sched.before.L2 # <<>>
    /\ sched.before.L3 # <<>>
    /\ sched.ret = Head(sched.before.L2)
    /\ sched.now.L3 = sched.before.L3

\* C33: after any sequence of ReadyToRun, FindNextToRun and Aging calls every
\* ready thread is in the queue of its priority band: priority >= 100 in L1,
\* 50 <= priority <= 99 in L2, priority < 50 in L3; and ReadyToRun leaves its
\* thread with status READY and wait time 0.
C33_ReadyThreadsInTheirBand ==
    ~halted =>
        /\ \A t \in Ready(sched.now) :
               Level(sched.now, t) = Band(sched.now.priority[t])
        /\ sched.op = "ReadyToRun" =>
               /\ sched.thread \in Ready(sched.now)
               /\ sched.now.status[sched.thread] = READY
               /\ sched.now.waitTime[sched.thread] = 0

\* C33 witness: an Aging call has raised one thread from L3 into L2 and another
\* from L2 into L1.
C33_Witness ==
    /\ ~halted
    /\ sched.op = "Aging"
    /\ \E t, u \in Ready(sched.before) :
           /\ Level(sched.before, t) = 3 /\ Level(sched.now, t) = 2
           /\ Level(sched.before, u) = 2 /\ Level(sched.now, u) = 1

\* C34: Aging neither loses nor duplicates a ready thread: the threads of L1,
\* L2 and L3 together are the same before and after every Aging call, and each
\* of them is in exactly one of the three queues.
C34_AgingKeepsTheReadyThreads ==
    (~halted /\ sched.op = "Aging") =>
        /\ Ready(sched.now) = Ready(sched.before)
        /\ Len(Queued(sched.now)) = Cardinality(Ready(sched.now))

\* C34 witness: an Aging call found one thread in L1 and one in L3, kept the
\* first in the rebuilt L1 and moved the second into the rebuilt L2.
C34_Witness ==
    /\ ~halted
    /\ sched.op = "Aging"
    /\ Len(sched.before.L1) = 1
    /\ Len(sched.before.L3) = 1
    /\ sched.now.L1 = sched.before.L1
    /\ sched.now.L2 = sched.before.L3
    /\ sched.now.L3 = <<>>

\* The tick increment of the last Aging call.
TickPlus == IF sched.status = SystemMode THEN SystemTick ELSE UserTick

\* What an Aging call with increment tick is to make of thread t of scheduler b.
Aged(b, n, t, tick) ==
    IF b.waitTime[t] + tick < AgingLimit
    THEN /\ n.waitTime[t] = b.waitTime[t] + tick
         /\ n.priority[t] = b.priority[t]
    ELSE /\ n.waitTime[t] = 0
         /\ n.priority[t] = IF b.priority[t] + PriorityStep > TopPriority
                            THEN TopPriority ELSE b.priority[t] + PriorityStep

\* C35: every Aging call either adds the tick increment (10 or 1) to the wait
\* time of each ready thread of L1, L2 and L3 when the sum stays below 1500, or,
\* when the sum reaches 1500, resets the wait time to 0 and raises the priority
\* by 10, capped at 149; and no thread that started at 149 or below exceeds 149.
C35_AgingAgesEveryReadyThread ==
    /\ (~halted /\ sched.op = "Aging") =>
           \A t \in Ready(sched.before) : Aged(sched.before, sched.now, t, TickPlus)
    /\ \A t \in Threads : sched.now.priority[t] <= TopPriority

\* The state C35 fails in: a thread of L1 with wait time 0 has been through an
\* Aging call that returned, and its wait time is 0 still.
C35_L1NotAged ==
    /\ ~halted
    /\ sched.op = "Aging"
    /\ \E t \in Ready(sched.before) :
           /\ Level(sched.before, t) = 1
           /\ sched.before.waitTime[t] = 0
           /\ sched.now.waitTime[t] = 0

\* C36: when Aging promotes a thread t from L2 into L1, a yield of the running
\* thread is requested exactly when the running thread has priority below 100
\* or is an L1 thread whose burst time is greater than t's; when Aging promotes
\* a thread from L3 into L2, a yield is requested exactly when the running
\* thread has priority below 50.
C36_YieldOnPromotion ==
    (~halted /\ sched.op = "Aging") =>
        LET n == sched.now
            cur == sched.now.currentThread
        IN \A i \in 1 .. Len(n.promoted) :
               LET p == n.promoted[i]
               IN /\ p.into = 1 =>
                         (p.yield <=> (n.priority[cur] < L1Floor
                                       \/ n.burstTime[cur] > n.burstTime[p.thread]))
                  /\ p.into = 2 => (p.yield <=> n.priority[cur] < L2Floor)

\* The state C36 fails in: a thread was promoted into L1 while a thread of L3
\* was running, and no yield was requested.
C36_NoYieldForL3Running ==
    /\ ~halted
    /\ sched.op = "Aging"
    /\ sched.now.priority[sched.now.currentThread] < L2Floor
    /\ \E i \in 1 .. Len(sched.now.promoted) :
           sched.now.promoted[i].into = 1 /\ ~sched.now.promoted[i].yield
    /\ ~sched.now.yieldOnReturn

====
